---------------------------- MODULE Spec2Model ----------------------------
(***************************************************************************)
(* A model of http-capture: the control loop (capture_control.rs), the     *)
(* capture thread with its flow table and the packet (ingest) thread       *)
(* (capture.rs), and the HTTP framer (stream/mod.rs).                      *)
(*                                                                         *)
(* Wire data is modelled over a small alphabet of symbols.  One symbol     *)
(* stands for one unit of buffer length: a start line, one header line     *)
(* (or a block of header lines), the empty line that ends a header block,  *)
(* or one body byte.  Content-Length values count symbols.                 *)
(***************************************************************************)
EXTENDS Integers, Sequences, FiniteSets, TLC

(***************************************************************************)
(* Option values: None is the empty sequence, Some(x) is <<x>>.            *)
(***************************************************************************)
None == <<>>
Some(x) == <<x>>
IsSome(o) == Len(o) = 1
Unwrap(o) == o[1]

Min(a, b) == IF a <= b THEN a ELSE b

SeqsUpTo(S, n) == UNION {[1..k -> S] : k \in 0..n}

RECURSIVE Flatten(_)
Flatten(ss) == IF ss = <<>> THEN <<>> ELSE Head(ss) \o Flatten(Tail(ss))

Drop(s, n) == SubSeq(s, n + 1, Len(s))
Take(s, n) == SubSeq(s, 1, n)

(***************************************************************************)
(* The wire alphabet.                                                      *)
(***************************************************************************)
\* request start lines ("GET /a HTTP/1.1\r\n") and response status lines
ReqLines == {"GET /a", "GET /b"}
RespLines == {"200", "204"}
\* the empty line "\r\n" that ends a header block
Blank == "E"
\* a line that is neither a start line nor a header ("garbage\r\n")
Junk == "J"
\* body bytes: a text byte, a byte that is not valid UTF-8, one gzip member
BodySyms == {"b", "x", "g"}

\* header lines: name, value, whether the value is valid UTF-8, and how
\* many header lines the symbol stands for
HeaderTable ==
  [ CL0    |-> [name |-> "Content-Length",   value |-> "0",    utf8 |-> TRUE,  lines |-> 1],
    CL1    |-> [name |-> "Content-Length",   value |-> "1",    utf8 |-> TRUE,  lines |-> 1],
    CL2    |-> [name |-> "Content-Length",   value |-> "2",    utf8 |-> TRUE,  lines |-> 1],
    cl1    |-> [name |-> "content-length",   value |-> "1",    utf8 |-> TRUE,  lines |-> 1],
    cl2    |-> [name |-> "content-length",   value |-> "2",    utf8 |-> TRUE,  lines |-> 1],
    CEgzip |-> [name |-> "Content-Encoding", value |-> "gzip", utf8 |-> TRUE,  lines |-> 1],
    CEbr   |-> [name |-> "Content-Encoding", value |-> "br",   utf8 |-> TRUE,  lines |-> 1],
    cegzip |-> [name |-> "content-encoding", value |-> "gzip", utf8 |-> TRUE,  lines |-> 1],
    Host   |-> [name |-> "Host",             value |-> "h",    utf8 |-> TRUE,  lines |-> 1],
    XBin   |-> [name |-> "X-Bin",            value |-> "\\xff", utf8 |-> FALSE, lines |-> 1],
    X16    |-> [name |-> "X-1..X-16",        value |-> "v",    utf8 |-> TRUE,  lines |-> 16] ]
HeaderSyms == DOMAIN HeaderTable

\* str::to_lowercase on the header names of the alphabet
to_lowercase(k) ==
  CASE k = "Content-Length"   -> "content-length"
    [] k = "Content-Encoding" -> "content-encoding"
    [] k = "Host"             -> "host"
    [] k = "X-Bin"            -> "x-bin"
    [] k = "X-1..X-16"        -> "x-1..x-16"
    [] OTHER                  -> k

\* usize::from_str(v).ok()
usize_from_str(v) ==
  CASE v = "0" -> Some(0)
    [] v = "1" -> Some(1)
    [] v = "2" -> Some(2)
    [] OTHER   -> None

\* String::from_utf8 succeeds on these bytes
IsUtf8(bytes) == \A i \in 1..Len(bytes) : bytes[i] \notin {"x", "g"}

(***************************************************************************)
(* httparse: Request::parse / Response::parse with a table of              *)
(* HeaderTableSize headers.  Leading empty lines are skipped, the start    *)
(* line must be of the right kind, then header lines follow up to the      *)
(* empty line.  Running out of bytes is Partial, a wrong symbol or a       *)
(* header beyond the table is an error.                                    *)
(***************************************************************************)
HeaderTableSize == 16

RECURSIVE skip_empty_lines(_, _)
skip_empty_lines(buf, i) ==
  IF i <= Len(buf) /\ buf[i] = Blank THEN skip_empty_lines(buf, i + 1) ELSE i

RECURSIVE parse_headers(_, _, _, _)
parse_headers(buf, i, count, acc) ==
  IF i > Len(buf) THEN [status |-> "Partial"]
  ELSE IF buf[i] = Blank THEN [status |-> "Complete", len |-> i, headers |-> acc]
  ELSE IF buf[i] \in HeaderSyms
    THEN IF count + HeaderTable[buf[i]].lines > HeaderTableSize
           THEN [status |-> "Error"]
           ELSE parse_headers(buf, i + 1, count + HeaderTable[buf[i]].lines,
                              Append(acc, buf[i]))
  ELSE [status |-> "Error"]

\* the start line at position i, then the header lines
parse_from(buf, startLines, i) ==
  IF i > Len(buf) THEN [status |-> "Partial"]
  ELSE IF buf[i] \notin startLines THEN [status |-> "Error"]
  ELSE LET h == parse_headers(buf, i + 1, 0, <<>>) IN
       IF h.status = "Complete"
         THEN [status |-> "Complete", len |-> h.len, line |-> buf[i],
               headers |-> h.headers]
         ELSE h

httparse(buf, startLines) ==
  parse_from(buf, startLines, skip_empty_lines(buf, 1))

(***************************************************************************)
(* The header HashMap<String, String>: a later insert of the same name     *)
(* replaces the earlier value.                                             *)
(***************************************************************************)
HeaderNames(hs) == {HeaderTable[hs[i]].name : i \in 1..Len(hs)}

HeaderMap(hs) ==
  [n \in HeaderNames(hs) |->
     LET last == CHOOSE i \in 1..Len(hs) :
                   /\ HeaderTable[hs[i]].name = n
                   /\ \A j \in (i + 1)..Len(hs) : HeaderTable[hs[j]].name # n
     IN HeaderTable[hs[last]].value]

HeadersUtf8(hs) == \A i \in 1..Len(hs) : HeaderTable[hs[i]].utf8

\* get_content_length: the first key of the map, in the map's iteration
\* order, whose lower-case form is "content-length".  The order of a
\* HashMap is arbitrary: `canonFirst` says whether "Content-Length" is
\* met before "content-length" when both are keys.
get_content_length(headers, canonFirst) ==
  LET keys == {k \in DOMAIN headers : to_lowercase(k) = "content-length"} IN
  IF keys = {} THEN None
  ELSE LET k == IF Cardinality(keys) = 1 THEN CHOOSE x \in keys : TRUE
                ELSE IF canonFirst THEN "Content-Length" ELSE "content-length"
       IN usize_from_str(headers[k])

\* unzip_content: MultiGzDecoder over the body, read to a String.  A body
\* made of gzip members decodes; anything else (no member at all, or bytes
\* that are no member) is an io::Error.
unzip_content(buf) ==
  IF buf # <<>> /\ \A i \in 1..Len(buf) : buf[i] = "g"
    THEN Some([i \in 1..Len(buf) |-> "u"])
    ELSE None

(***************************************************************************)
(* parse_request / parse_response.  The result is                          *)
(*   [res |-> "Ok", msg |-> the parsed message, rest |-> the buffer left]  *)
(*   [res |-> "Err", rest |-> ...]   the function returned Err             *)
(*   [res |-> "Panic", rest |-> ...] an unwrap or split_to panicked        *)
(***************************************************************************)
\* parse_request after `res`, the Result of parsed_req.parse(req_bytes)
request_of(req_bytes, res, canonFirst) ==
  IF res.status = "Error" THEN [res |-> "Err", rest |-> req_bytes]
  ELSE IF res.status = "Partial" THEN [res |-> "Err", rest |-> req_bytes]
  ELSE IF ~HeadersUtf8(res.headers) THEN [res |-> "Panic", rest |-> req_bytes]
  ELSE
    LET headers == HeaderMap(res.headers)
        after == Drop(req_bytes, res.len)
        cl == get_content_length(headers, canonFirst)
    IN
    IF IsSome(cl) /\ Unwrap(cl) > 0
      THEN IF Unwrap(cl) > Len(after)
             THEN [res |-> "Panic", rest |-> after]
             ELSE LET body_buf == Take(after, Unwrap(cl)) IN
                  [res |-> "Ok",
                   msg |-> [line |-> res.line, headers |-> headers,
                            body |-> Some(IF IsUtf8(body_buf) THEN body_buf
                                          ELSE <<"Body encoding error">>)],
                   rest |-> Drop(after, Unwrap(cl))]
      ELSE [res |-> "Ok",
            msg |-> [line |-> res.line, headers |-> headers, body |-> None],
            rest |-> after]

parse_request(req_bytes, canonFirst) ==
  request_of(req_bytes, httparse(req_bytes, ReqLines), canonFirst)

\* parse_response after `res`, the Result of parsed_resp.parse(resp_bytes)
response_of(resp_bytes, res, canonFirst) ==
  IF res.status = "Error" THEN [res |-> "Panic", rest |-> resp_bytes]
  ELSE IF res.status = "Partial" THEN [res |-> "Err", rest |-> resp_bytes]
  ELSE IF ~HeadersUtf8(res.headers) THEN [res |-> "Err", rest |-> resp_bytes]
  ELSE
    LET headers == HeaderMap(res.headers)
        after == Drop(resp_bytes, res.len)
        cl == get_content_length(headers, canonFirst)
    IN
    IF IsSome(cl)
      THEN IF Unwrap(cl) > Len(after)
             THEN [res |-> "Panic", rest |-> after]
             ELSE
               LET body_buf == Take(after, Unwrap(cl))
                   rest == Drop(after, Unwrap(cl))
               IN
               IF "Content-Encoding" \in DOMAIN headers
                 THEN IF headers["Content-Encoding"] = "gzip"
                        THEN IF IsSome(unzip_content(body_buf))
                               THEN [res |-> "Ok",
                                     msg |-> [line |-> res.line, headers |-> headers,
                                              body |-> unzip_content(body_buf)],
                                     rest |-> rest]
                               ELSE [res |-> "Err", rest |-> rest]
                        ELSE [res |-> "Err", rest |-> rest]
                 ELSE [res |-> "Ok",
                       msg |-> [line |-> res.line, headers |-> headers,
                                body |-> Some(IF IsUtf8(body_buf) THEN body_buf
                                              ELSE <<"Encoding error">>)],
                       rest |-> rest]
      ELSE [res |-> "Ok",
            msg |-> [line |-> res.line, headers |-> headers, body |-> None],
            rest |-> after]

parse_response(resp_bytes, canonFirst) ==
  response_of(resp_bytes, httparse(resp_bytes, RespLines), canonFirst)

(***************************************************************************)
(* TcpStream (stream/mod.rs) and its conversion to HTTP transactions.      *)
(***************************************************************************)
Source == "Source"
Destination == "Destination"

\* TcpStream::new
\* TcpStream::new as it would be if it took the endpoints the other way
TcpStream_new_swapped(id, timestamp, source, destination) ==
  [id |-> id, timestamp |-> timestamp, source |-> destination,
   destination |-> source, request |-> <<>>, response |-> <<>>,
   fin |-> <<FALSE, FALSE>>]

TcpStream_new(id, timestamp, source, destination) ==
  [id |-> id, timestamp |-> timestamp, source |-> source,
   destination |-> destination, request |-> <<>>, response |-> <<>>,
   fin |-> <<FALSE, FALSE>>]

\* append_request_bytes as it would be if it put the slice in front
append_request_bytes_front(self, b) == [self EXCEPT !.request = b \o @]
append_request_bytes(self, b) == [self EXCEPT !.request = @ \o b]
\* append_response_bytes as it would be if it kept the last slice only
append_response_bytes_last(self, b) == [self EXCEPT !.response = b]
append_response_bytes(self, b) == [self EXCEPT !.response = @ \o b]
\* set_source_fin as it would be if it marked both sides
set_source_fin_both(self) == [self EXCEPT !.fin = <<TRUE, TRUE>>]
set_source_fin(self) == [self EXCEPT !.fin[1] = TRUE]
\* set_destination_fin as it would be if it cleared the other flag
set_destination_fin_clearing(self) == [self EXCEPT !.fin = <<FALSE, TRUE>>]
set_destination_fin(self) == [self EXCEPT !.fin[2] = TRUE]
is_finished(self) == self.fin = <<TRUE, TRUE>>

\* same_parties as it would be if it labelled both orders Source
same_parties_unsided(self, source, destination) ==
  IF self.source = source /\ self.destination = destination THEN Some(Source)
  ELSE IF self.source = destination /\ self.destination = source
    THEN Some(Source)
  ELSE None

\* same_parties as it would be if it knew the flow by one order only
same_parties_forward(self, source, destination) ==
  IF self.source = source /\ self.destination = destination THEN Some(Source)
  ELSE None

same_parties(self, source, destination) ==
  IF self.source = source /\ self.destination = destination THEN Some(Source)
  ELSE IF self.source = destination /\ self.destination = source
    THEN Some(Destination)
  ELSE None

\* convert_with as it would be if a new transaction were put first
convert_with_front(c, rq, rs) ==
  IF rq.res = "Panic"
    THEN [c EXCEPT !.self.request = rq.rest, !.pc = "panicked"]
  ELSE IF rq.res = "Err"
    THEN [c EXCEPT !.self.request = rq.rest, !.pc = "returned"]
  ELSE IF rs.res = "Panic"
    THEN [c EXCEPT !.self.request = rq.rest, !.self.response = rs.rest,
                   !.pc = "panicked"]
  ELSE IF rs.res = "Err"
    THEN [c EXCEPT !.self.request = rq.rest, !.self.response = rs.rest,
                   !.pc = "returned"]
  ELSE [c EXCEPT !.self.request = rq.rest, !.self.response = rs.rest,
                 !.streams = <<[id |-> c.self.id,
                                timestamp |-> c.self.timestamp,
                                source |-> c.self.source,
                                destination |-> c.self.destination,
                                parsed_request |-> rq.msg,
                                parsed_response |-> rs.msg]>> \o @]

\* convert_with as it would be if a request whose response fails to parse
\* were emitted alone
convert_with_alone(c, rq, rs) ==
  IF rq.res = "Panic"
    THEN [c EXCEPT !.self.request = rq.rest, !.pc = "panicked"]
  ELSE IF rq.res = "Err"
    THEN [c EXCEPT !.self.request = rq.rest, !.pc = "returned"]
  ELSE IF rs.res = "Panic"
    THEN [c EXCEPT !.self.request = rq.rest, !.self.response = rs.rest,
                   !.pc = "panicked"]
  ELSE IF rs.res = "Err"
    THEN [c EXCEPT !.self.request = rq.rest, !.self.response = rs.rest,
                   !.streams = Append(@,
                      [id |-> c.self.id, timestamp |-> c.self.timestamp,
                       source |-> c.self.source,
                       destination |-> c.self.destination,
                       parsed_request |-> rq.msg,
                       parsed_response |-> None]),
                   !.pc = "returned"]
  ELSE [c EXCEPT !.self.request = rq.rest, !.self.response = rs.rest,
                 !.streams = Append(@,
                    [id |-> c.self.id, timestamp |-> c.self.timestamp,
                     source |-> c.self.source,
                     destination |-> c.self.destination,
                     parsed_request |-> rq.msg,
                     parsed_response |-> rs.msg])]

\* convert_with as it would be if the parses read the buffers without
\* consuming them
convert_with_peek(c, rq, rs) ==
  IF rq.res = "Panic" THEN [c EXCEPT !.pc = "panicked"]
  ELSE IF rq.res = "Err" THEN [c EXCEPT !.pc = "returned"]
  ELSE IF rs.res = "Panic" THEN [c EXCEPT !.pc = "panicked"]
  ELSE IF rs.res = "Err" THEN [c EXCEPT !.pc = "returned"]
  ELSE [c EXCEPT !.streams = Append(@,
                    [id |-> c.self.id, timestamp |-> c.self.timestamp,
                     source |-> c.self.source,
                     destination |-> c.self.destination,
                     parsed_request |-> rq.msg,
                     parsed_response |-> rs.msg])]

\* convert_with as it would be if it numbered the transactions of a flow
convert_with_counted(c, rq, rs) ==
  IF rq.res = "Panic"
    THEN [c EXCEPT !.self.request = rq.rest, !.pc = "panicked"]
  ELSE IF rq.res = "Err"
    THEN [c EXCEPT !.self.request = rq.rest, !.pc = "returned"]
  ELSE IF rs.res = "Panic"
    THEN [c EXCEPT !.self.request = rq.rest, !.self.response = rs.rest,
                   !.pc = "panicked"]
  ELSE IF rs.res = "Err"
    THEN [c EXCEPT !.self.request = rq.rest, !.self.response = rs.rest,
                   !.pc = "returned"]
  ELSE [c EXCEPT !.self.request = rq.rest, !.self.response = rs.rest,
                 !.streams = Append(@,
                    [id |-> c.self.id + Len(c.streams),
                     timestamp |-> c.self.timestamp,
                     source |-> c.self.source,
                     destination |-> c.self.destination,
                     parsed_request |-> rq.msg,
                     parsed_response |-> rs.msg])]

\* One iteration of the loop of convert_to_http_stream.  `c` holds the
\* stream being drained (self), the transactions pushed so far (streams)
\* and where the function is: in the loop, returned, or panicked.  `rq` is
\* the result of parse_request; `rs` that of parse_response, which is
\* called only when `rq` is Ok.
convert_with(c, rq, rs) ==
  IF rq.res = "Panic"
    THEN [c EXCEPT !.self.request = rq.rest, !.pc = "panicked"]
  ELSE IF rq.res = "Err"
    THEN [c EXCEPT !.self.request = rq.rest, !.pc = "returned"]
  ELSE IF rs.res = "Panic"
    THEN [c EXCEPT !.self.request = rq.rest, !.self.response = rs.rest,
                   !.pc = "panicked"]
  ELSE IF rs.res = "Err"
    THEN [c EXCEPT !.self.request = rq.rest, !.self.response = rs.rest,
                   !.pc = "returned"]
  ELSE [c EXCEPT !.self.request = rq.rest, !.self.response = rs.rest,
                 !.streams = Append(@,
                    [id |-> c.self.id, timestamp |-> c.self.timestamp,
                     source |-> c.self.source,
                     destination |-> c.self.destination,
                     parsed_request |-> rq.msg,
                     parsed_response |-> rs.msg])]

convert_iteration(c, canonFirst) ==
  convert_with(c, parse_request(c.self.request, canonFirst),
               parse_response(c.self.response, canonFirst))

\* the loop, run to its end (the state after each turn is bound as a value)
RECURSIVE convert_loop(_, _)
convert_loop(c, canonFirst) ==
  IF c.pc # "loop" THEN c
  ELSE CHOOSE r \in {convert_loop(n, canonFirst) :
                       n \in {convert_iteration(c, canonFirst)}} : TRUE

\* TcpStream::convert_to_http_stream: the transactions returned, or a panic
convert_result(c) ==
  [streams |-> IF c.pc = "panicked" THEN <<>> ELSE c.streams,
   panicked |-> c.pc = "panicked"]

convert_to_http_stream(self, canonFirst) ==
  convert_result(convert_loop([self |-> self, streams |-> <<>>,
                               pc |-> "loop"], canonFirst))


(***************************************************************************)
(* Messages the framer is run on.  A complete message is a start line,     *)
(* header lines, the empty line and as many body bytes as its              *)
(* Content-Length declares (none when it declares none).                   *)
(***************************************************************************)
Msg(line, hdrs, body) == <<line>> \o hdrs \o <<Blank>> \o body

CompleteRequests ==
  { Msg("GET /a", <<>>, <<>>),
    Msg("GET /b", <<"CL1">>, <<"b">>),
    Msg("GET /a", <<"cl2">>, <<"b", "x">>),
    Msg("GET /b", <<"X16", "Host">>, <<>>),
    Msg("GET /a", <<"XBin">>, <<>>) }

\* requests cut short: the header block has no end, or the body is shorter
\* than declared
PartialRequests ==
  { <<"GET /a", "Host">>,
    Msg("GET /b", <<"CL2">>, <<"b">>) }

CompleteResponses ==
  { Msg("200", <<"CL1">>, <<"b">>),
    Msg("204", <<"CL0">>, <<>>),
    Msg("200", <<"CL1">>, <<"x">>),
    Msg("200", <<"CL1", "CEgzip">>, <<"g">>),
    Msg("200", <<"cl1", "cegzip">>, <<"g">>),
    Msg("200", <<"CL1", "CEbr">>, <<"b">>),
    Msg("204", <<"CEbr">>, <<>>),
    Msg("200", <<"X16", "Host">>, <<>>) }

\* responses cut short, a gzip body that does not decode, and a line that
\* is no status line
BrokenResponses ==
  { <<"200", "Host">>,
    Msg("200", <<"CL2">>, <<"b">>),
    Msg("200", <<"CL1", "CEgzip">>, <<"b">>),
    <<Junk>> }

RequestPieces == CompleteRequests \cup PartialRequests
ResponsePieces == CompleteResponses \cup BrokenResponses

\* how many messages a buffer of the framer specification is built from
MaxMsgs == 2

VARIABLES
  conv,      \* the running convert_to_http_stream: [self, streams, pc]
  reqMsgs,   \* the messages the request buffer was built from
  respMsgs,  \* the messages the response buffer was built from
  table,     \* a Streams value under direct calls: [self, pc, calls]
  cmd,       \* the control loop's command channel (Receiver<Command>)
  cmdOpen,   \* whether the sender of cmd is still held by the UI
  issued,    \* how many commands the UI has sent
  ctl,       \* control_loop: [pc, command_sender]
  caps,      \* the capture threads started so far, in order
  frames,    \* how many frames the packet sources have delivered
  output,    \* what was sent on the output channel: [cap, stream]
  outputOpen,\* whether the consumer still holds the output receiver
  retired,   \* every send_stream call: [cap, id], the endpoints and the
             \* buffers of the flow removed, and whether its transactions
             \* were delivered
  framed,    \* every convert_to_http_stream call: [cap, id]
  fins,      \* every FIN packet handled: <<cap, id, side>>
  ui         \* the UI: the fields of State, where run_app stands (pc), the
             \* commands it has sent (sent) and the events it has handled

fvars == <<conv, reqMsgs, respMsgs, table, ui>>
svars == <<cmd, cmdOpen, issued, ctl, caps, frames, output, outputOpen,
           retired, framed, fins, ui>>
vars == <<conv, reqMsgs, respMsgs, table, cmd, cmdOpen, issued, ctl, caps, frames,
          output, outputOpen, retired, framed, fins, ui>>

\* no UI is under study
UiIdle == [pc |-> "idle", capture_state |-> "Inactive",
           selected_window |-> "PacketList", stream_items |-> 0,
           selected_stream |-> <<>>, devices |-> 0,
           selected_device |-> <<>>, sent |-> <<>>, keys |-> 0]

\* no Streams value is under direct calls
TableIdle == [self |-> <<>>, pc |-> "idle",
              calls |-> 0]

\* no conversion is running
ConvIdle == [self |-> TcpStream_new(0, 0, "A", "B"), streams |-> <<>>,
             pc |-> "idle"]

(***************************************************************************)
(* Streams (capture.rs): the flow table of one capture.                    *)
(***************************************************************************)
Streams_new == [next_id |-> 0, streams |-> <<>>]

lookup_stream(self, source, dest) ==
  LET hits == {i \in 1..Len(self.streams) :
                 IsSome(same_parties(self.streams[i], source, dest))} IN
  IF hits = {} THEN None
  ELSE LET i == CHOOSE x \in hits : \A y \in hits : x <= y IN
       Some(<<i, Unwrap(same_parties(self.streams[i], source, dest))>>)

\* store as it would be if it did not advance the counter
store_stuck(self, source, dest, ts) ==
  LET found == lookup_stream(self, source, dest) IN
  IF found = None
    THEN [self |-> [self EXCEPT !.streams =
                      Append(@, TcpStream_new(self.next_id, ts, source, dest))],
          ret |-> <<Len(self.streams) + 1, Source>>]
    ELSE [self |-> self, ret |-> Unwrap(found)]

\* store as it would be if it returned the length after the push
store_past(self, source, dest, ts) ==
  LET found == lookup_stream(self, source, dest) IN
  IF found = None
    THEN [self |-> [next_id |-> self.next_id + 1,
                    streams |-> Append(self.streams,
                       TcpStream_new(self.next_id, ts, source, dest))],
          ret |-> <<Len(self.streams) + 2, Source>>]
    ELSE [self |-> self, ret |-> Unwrap(found)]

\* store: the table after the call and the (index, side) returned
store(self, source, dest, ts) ==
  LET found == lookup_stream(self, source, dest) IN
  IF found = None
    THEN [self |-> [next_id |-> self.next_id + 1,
                    streams |-> Append(self.streams,
                       TcpStream_new(self.next_id, ts, source, dest))],
          ret |-> <<Len(self.streams) + 1, Source>>]
    ELSE [self |-> self, ret |-> Unwrap(found)]

\* Streams::append_request_bytes / append_response_bytes; a missing index
\* is the panic!("Index {} cannot be found")
Streams_append_request_bytes(self, index, bytes) ==
  IF index \in 1..Len(self.streams)
    THEN [self |-> [self EXCEPT !.streams[index] =
                      append_request_bytes(@, bytes)],
          panicked |-> FALSE]
    ELSE [self |-> self, panicked |-> TRUE]

Streams_append_response_bytes(self, index, bytes) ==
  IF index \in 1..Len(self.streams)
    THEN [self |-> [self EXCEPT !.streams[index] =
                      append_response_bytes(@, bytes)],
          panicked |-> FALSE]
    ELSE [self |-> self, panicked |-> TRUE]

\* register_fin as it would be if one FIN were enough to finish a flow
register_fin_first(self, index, side) ==
  IF index \in 1..Len(self.streams)
    THEN [self |-> [self EXCEPT !.streams[index] =
                      IF side = Source THEN set_source_fin(@)
                      ELSE set_destination_fin(@)],
          ret |-> TRUE]
    ELSE [self |-> self, ret |-> FALSE]

\* register_fin: the table after the call and the bool returned
register_fin(self, index, side) ==
  IF index \in 1..Len(self.streams)
    THEN LET stream == IF side = Source
                         THEN set_source_fin(self.streams[index])
                         ELSE set_destination_fin(self.streams[index])
         IN [self |-> [self EXCEPT !.streams[index] = stream],
             ret |-> is_finished(stream)]
    ELSE [self |-> self, ret |-> FALSE]

\* Vec::pop in the place of Vec::remove
Remove_pop(v, index) == Take(v, Len(v) - 1)

\* Vec::remove
Remove(v, index) == Take(v, index - 1) \o Drop(v, index)

\* send_stream as it would be if it cloned the flow and left it in the table
send_stream_keeping(self, index, canonFirst) ==
  LET stream == self.streams[index] IN
  [self |-> self,
   stream |-> stream,
   conv |-> convert_to_http_stream(stream, canonFirst)]

\* send_stream: the table after the removal, the stream removed and the
\* result of its conversion
send_stream(self, index, canonFirst) ==
  LET stream == self.streams[index] IN
  [self |-> [self EXCEPT !.streams = Remove(@, index)],
   stream |-> stream,
   conv |-> convert_to_http_stream(stream, canonFirst)]

(***************************************************************************)
(* Frames delivered by the packet source, and their decoding in            *)
(* packet_stream.  An "ipv4" frame is a well-formed TCP segment in the     *)
(* dialect of the capture.  A "truncated" frame has headers cut short.     *)
(* An "unknown_tag" frame is a loopback frame whose family tag is not 2.   *)
(* An "other" frame is an Ethernet frame that parses but holds no TCP      *)
(* segment.                                                                *)
(***************************************************************************)
Endpoints == {"A", "B", "C"}

TcpFrame(src, dest, payload, fin) ==
  [kind |-> "ipv4", src |-> src, dest |-> dest, payload |-> payload,
   fin |-> fin]
BadFrame(kind) ==
  [kind |-> kind, src |-> "A", dest |-> "A", payload |-> <<>>, fin |-> FALSE]

\* the frames on the wire of the whole-program specification
Frames ==
  { TcpFrame("A", "B", Msg("GET /a", <<>>, <<>>), TRUE),
    TcpFrame("B", "A", Msg("200", <<"CL1">>, <<"b">>), TRUE),
    BadFrame("truncated"), BadFrame("unknown_tag"), BadFrame("other") }

\* the frames on the wire of the specification of one capture
CaptureFrames ==
  { TcpFrame("A", "B", Msg("GET /a", <<>>, <<>>), FALSE),
    TcpFrame("A", "B", Msg("GET /b", <<"CL1">>, <<"b">>), TRUE),
    TcpFrame("B", "A", Msg("200", <<"CL1">>, <<"b">>), FALSE),
    TcpFrame("B", "A", Msg("204", <<"CL0">>, <<>>), TRUE),
    TcpFrame("A", "B", <<>>, FALSE),
    TcpFrame("A", "B", <<>>, TRUE),
    TcpFrame("B", "A", <<>>, TRUE),
    TcpFrame("A", "C", Msg("GET /a", <<>>, <<>>), TRUE),
    TcpFrame("C", "A", Msg("200", <<"CL1">>, <<"b">>), TRUE),
    TcpFrame("B", "A", <<Junk>>, TRUE),
    BadFrame("truncated"), BadFrame("unknown_tag"), BadFrame("other") }

\* from_loopback_packet and extract_endpoint_pair: a panic unless the frame
\* starts with the IPv4 tag and its headers are whole
from_loopback_packet(frame) ==
  IF frame.kind = "ipv4" THEN "packet" ELSE "panic"

\* SlicedPacket::from_ethernet(..).unwrap() and from_sliced_packet
from_ethernet(frame) ==
  CASE frame.kind = "ipv4"  -> "packet"
    [] frame.kind = "other" -> "skip"
    [] OTHER                -> "panic"

decode(frame, loopback) ==
  IF loopback THEN from_loopback_packet(frame) ELSE from_ethernet(frame)

FilteredStream(frame, ts) ==
  [ts |-> ts, src |-> frame.src, dest |-> frame.dest,
   payload |-> frame.payload, fin |-> frame.fin]

(***************************************************************************)
(* The packet arm of the select! of capture_loop, on the flow table:       *)
(* store, append, and on a FIN that finishes the flow send_stream and      *)
(* send every transaction to the output channel.                           *)
(*   streams  the table after the handler                                  *)
(*   index, side, created  what store returned, and whether it pushed      *)
(*   fin      whether register_fin was called                              *)
(*   removed  the flow send_stream removed, if it was called               *)
(*   sent     the transactions given to output.send, in order              *)
(*   panicked whether the handler panicked                                 *)
(***************************************************************************)
\* the handler after send_stream returned `ss`
finish(base, ss) ==
  [base EXCEPT !.streams = ss.self, !.fin = TRUE,
               !.removed = Some(ss.stream),
               !.sent = ss.conv.streams,
               !.panicked = ss.conv.panicked]

\* the handler after register_fin returned `rf`
handle_finished(base, rf, canonFirst) ==
  IF ~rf.ret THEN [base EXCEPT !.streams = rf.self, !.fin = TRUE]
  ELSE finish(base, send_stream(rf.self, base.index, canonFirst))

\* the handler after store and the append: `base` is its outcome so far
handle_fin(base, packet, canonFirst) ==
  IF base.panicked \/ ~packet.fin THEN base
  ELSE handle_finished(base,
                       register_fin(base.streams, base.index, base.side),
                       canonFirst)

\* the handler after store returned `st` and the append `ap`
handle_base(before, st, ap) ==
  [streams |-> ap.self, index |-> st.ret[1], side |-> st.ret[2],
   created |-> Len(st.self.streams) > Len(before.streams),
   id |-> IF ap.panicked THEN 0 ELSE ap.self.streams[st.ret[1]].id,
   fin |-> FALSE, removed |-> None, sent |-> <<>>,
   panicked |-> ap.panicked]

\* the handler as it would be if a FIN were registered, and the flow
\* retired, before the payload of its packet is appended
handle_append_late(before, st, packet, canonFirst) ==
  handle_fin(handle_base(before, st,
               IF packet.fin THEN [self |-> st.self, panicked |-> FALSE]
               ELSE IF st.ret[2] = Source
                 THEN Streams_append_request_bytes(st.self, st.ret[1],
                                                   packet.payload)
                 ELSE Streams_append_response_bytes(st.self, st.ret[1],
                                                    packet.payload)),
             packet, canonFirst)

\* the handler after store returned `st`
handle_append(before, st, packet, canonFirst) ==
  handle_fin(handle_base(before, st,
               IF st.ret[2] = Source
                 THEN Streams_append_request_bytes(st.self, st.ret[1],
                                                   packet.payload)
                 ELSE Streams_append_response_bytes(st.self, st.ret[1],
                                                    packet.payload)),
             packet, canonFirst)

handle_packet(streams, packet, canonFirst) ==
  handle_append(streams, store(streams, packet.src, packet.dest, packet.ts),
                packet, canonFirst)

(***************************************************************************)
(* The threads.                                                            *)
(***************************************************************************)
\* capacity of the packet channel and of a capture's command channel
PacketCap == 5
CommandCap == 5

Devices == {"eth0", "lo0"}
Interfaces == Devices \cup {"nope"}
StartCapture(i) == [t |-> "StartCapture", iface |-> i]
StopCapture == [t |-> "StopCapture", iface |-> ""]
\* what the UI of the whole-program specification sends
Commands == {StartCapture("eth0"), StartCapture("nope"), StopCapture}

\* how many times the UI acts (a command sent, or its sender dropped) and
\* how many times next_packet returns
MaxCmds == 3
MaxFrames == 2
\* how many times next_packet returns in the specification of one capture
MaxPackets == 4

\* is_loopback of the macOS build.  On the other targets it is constantly
\* false, and "lo0" then behaves as "eth0" does here.
is_loopback(device) == device = "lo0"

\* a capture thread just spawned by capture::start_capture
NewCapture(iface) ==
  [iface |-> iface, pc |-> "spawned", loopback |-> FALSE,
   streams |-> Streams_new, packets |-> <<>>, ingest |-> "none",
   held |-> None, commands |-> <<>>, tx |-> TRUE]

\* the capture thread is gone: its locals are dropped
Gone(c, how) ==
  [c EXCEPT !.pc = how, !.streams = Streams_new, !.packets = <<>>,
            !.commands = <<>>]

Alive(c) == c.pc \in {"spawned", "loop"}

Init ==
  /\ conv = ConvIdle /\ reqMsgs = <<>> /\ respMsgs = <<>>
  /\ table = TableIdle
  /\ ui = UiIdle
  /\ cmd = <<>> /\ cmdOpen = TRUE /\ issued = 0
  /\ ctl = [pc |-> "recv", command_sender |-> None]
  /\ caps = <<>>
  /\ frames = 0
  /\ output = <<>> /\ outputOpen = TRUE
  /\ retired = <<>> /\ framed = <<>> /\ fins = {}

\* the sender a control loop holds is dropped
DropSender(cs, sender) ==
  IF IsSome(sender) THEN [cs EXCEPT ![Unwrap(sender)].tx = FALSE] ELSE cs

\* --- the UI and the consumer (the environment) ---
UiSend ==
  /\ cmdOpen /\ ctl.pc = "recv" /\ issued < MaxCmds
  /\ \E c \in Commands : cmd' = Append(cmd, c)
  /\ issued' = issued + 1
  /\ UNCHANGED <<fvars, cmdOpen, ctl, caps, frames, output, outputOpen,
                 retired, framed, fins>>

UiClose ==
  /\ cmdOpen /\ issued < MaxCmds
  /\ cmdOpen' = FALSE
  /\ issued' = issued + 1
  /\ UNCHANGED <<fvars, cmd, ctl, caps, frames, output, outputOpen,
                 retired, framed, fins>>

ConsumerDrop ==
  /\ outputOpen
  /\ outputOpen' = FALSE
  /\ UNCHANGED <<fvars, cmd, cmdOpen, issued, ctl, caps, frames, output,
                 retired, framed, fins>>

\* --- control_loop ---
\* StartCapture(interface): start_capture, then command_sender = Some(..)
ControlStart ==
  /\ ctl.pc = "recv" /\ cmd # <<>> /\ Head(cmd).t = "StartCapture"
  /\ cmd' = Tail(cmd)
  /\ IF Head(cmd).iface \in Devices
       THEN /\ caps' = Append(DropSender(caps, ctl.command_sender),
                              NewCapture(Head(cmd).iface))
            /\ ctl' = [ctl EXCEPT !.command_sender = Some(Len(caps) + 1)]
       ELSE \* position(..).unwrap() on None
            /\ caps' = DropSender(caps, ctl.command_sender)
            /\ ctl' = [pc |-> "panicked", command_sender |-> None]
  /\ UNCHANGED <<fvars, cmdOpen, issued, frames, output, outputOpen,
                 retired, framed, fins>>

\* StopCapture: tx.send(StopCapture).unwrap() when a sender is held
ControlStop ==
  /\ ctl.pc = "recv" /\ cmd # <<>> /\ Head(cmd).t = "StopCapture"
  /\ IF ctl.command_sender = None
       THEN UNCHANGED <<ctl, caps>>
       ELSE LET s == Unwrap(ctl.command_sender) IN
            IF Alive(caps[s])
              THEN /\ Len(caps[s].commands) < CommandCap
                   /\ caps' = [caps EXCEPT ![s].commands =
                                 Append(@, "StopCapture")]
                   /\ UNCHANGED ctl
              ELSE \* the receiver is gone: send is Err, unwrap panics
                   /\ caps' = DropSender(caps, ctl.command_sender)
                   /\ ctl' = [pc |-> "panicked", command_sender |-> None]
  /\ cmd' = Tail(cmd)
  /\ UNCHANGED <<fvars, cmdOpen, issued, frames, output, outputOpen,
                 retired, framed, fins>>

\* cmd.recv() is Err: every sender is dropped and the channel is empty
ControlExit ==
  /\ ctl.pc = "recv" /\ cmd = <<>> /\ ~cmdOpen
  /\ ctl' = [pc |-> "exited", command_sender |-> None]
  /\ caps' = DropSender(caps, ctl.command_sender)
  /\ UNCHANGED <<fvars, cmd, cmdOpen, issued, frames, output, outputOpen,
                 retired, framed, fins>>

\* --- capture_loop ---
\* the device is opened and the filter installed, or either fails
CaptureOpen(s) ==
  /\ caps[s].pc = "spawned"
  /\ \/ caps' = [caps EXCEPT ![s].pc = "loop",
                               ![s].loopback = is_loopback(caps[s].iface),
                               ![s].ingest = "running"]
     \/ caps' = [caps EXCEPT ![s] = Gone(@, "returned")]
  /\ UNCHANGED <<fvars, cmd, cmdOpen, issued, ctl, frames, output,
                 outputOpen, retired, framed, fins>>

\* recv(packets) -> Ok(packet)
CapturePacket(s) ==
  /\ caps[s].pc = "loop" /\ caps[s].packets # <<>>
  /\ \E canonFirst \in BOOLEAN :
     \E h \in {handle_packet(caps[s].streams, Head(caps[s].packets),
                             canonFirst)} :
       /\ caps' = [caps EXCEPT ![s] =
                     IF h.panicked THEN Gone(@, "panicked")
                     ELSE [@ EXCEPT !.streams = h.streams,
                                    !.packets = Tail(@)]]
       /\ output' = IF outputOpen /\ ~h.panicked
                      THEN output \o [i \in 1..Len(h.sent) |->
                                        [cap |-> s, stream |-> h.sent[i]]]
                      ELSE output
       /\ retired' = IF IsSome(h.removed)
                       THEN Append(retired,
                              [cap |-> s, id |-> h.id,
                               source |-> Unwrap(h.removed).source,
                               destination |-> Unwrap(h.removed).destination,
                               request |-> Unwrap(h.removed).request,
                               response |-> Unwrap(h.removed).response,
                               delivered |-> outputOpen /\ ~h.panicked])
                       ELSE retired
       /\ framed' = IF IsSome(h.removed)
                      THEN Append(framed, [cap |-> s, id |-> h.id])
                      ELSE framed
       /\ fins' = IF h.fin THEN fins \cup {<<s, h.id, h.side>>} ELSE fins
  /\ UNCHANGED <<fvars, cmd, cmdOpen, issued, ctl, frames, outputOpen>>

\* recv(packets) -> Err: the packet thread is gone and the channel empty
CapturePacketErr(s) ==
  /\ caps[s].pc = "loop" /\ caps[s].packets = <<>>
  /\ caps[s].ingest \in {"exited", "panicked"}
  /\ caps' = [caps EXCEPT ![s] = Gone(@, "returned")]
  /\ UNCHANGED <<fvars, cmd, cmdOpen, issued, ctl, frames, output,
                 outputOpen, retired, framed, fins>>

\* the StopCapture arm as it would be if it emitted the open flows
CaptureCommandFlush(s) ==
  /\ caps[s].pc = "loop" /\ caps[s].commands # <<>>
  /\ caps' = [caps EXCEPT ![s] = Gone(@, "stopped")]
  /\ output' = output \o
       [i \in 1..Len(caps[s].streams.streams) |->
          [cap |-> s,
           stream |-> [id |-> caps[s].streams.streams[i].id,
                       timestamp |-> caps[s].streams.streams[i].timestamp,
                       source |-> caps[s].streams.streams[i].source,
                       destination |-> caps[s].streams.streams[i].destination,
                       parsed_request |-> [line |-> "GET /a", headers |-> <<>>,
                                           body |-> None],
                       parsed_response |-> [line |-> "200", headers |-> <<>>,
                                            body |-> None]]]]
  /\ UNCHANGED <<fvars, cmd, cmdOpen, issued, ctl, frames,
                 outputOpen, retired, framed, fins>>

\* recv(commands) -> Ok(StopCapture)
CaptureCommand(s) ==
  /\ caps[s].pc = "loop" /\ caps[s].commands # <<>>
  /\ caps' = [caps EXCEPT ![s] = Gone(@, "stopped")]
  /\ UNCHANGED <<fvars, cmd, cmdOpen, issued, ctl, frames, output,
                 outputOpen, retired, framed, fins>>

\* the Err arm as it would be if it put channel::never() in the place of
\* the closed receiver and went on
CaptureCommandErr_never(s) ==
  /\ caps[s].pc = "loop" /\ caps[s].commands = <<>> /\ ~caps[s].tx
  /\ caps' = [caps EXCEPT ![s].tx = TRUE]
  /\ UNCHANGED <<fvars, cmd, cmdOpen, issued, ctl, frames, output,
                 outputOpen, retired, framed, fins>>

\* recv(commands) -> Err: the sender is dropped and the channel empty
CaptureCommandErr(s) ==
  /\ caps[s].pc = "loop" /\ caps[s].commands = <<>> /\ ~caps[s].tx
  /\ caps' = [caps EXCEPT ![s] = Gone(@, "returned")]
  /\ UNCHANGED <<fvars, cmd, cmdOpen, issued, ctl, frames, output,
                 outputOpen, retired, framed, fins>>

\* --- the thread of packet_stream ---
Offered(c, wire) ==
  {f \in wire : /\ f.kind = "unknown_tag" => c.loopback
                /\ f.kind = "other" => ~c.loopback}

\* the packet thread as it would be with try_send: a packet that meets a
\* full channel is discarded
IngestFrame_lossy(s, wire, max) ==
  /\ caps[s].ingest = "running" /\ frames < max
  /\ frames' = frames + 1
  /\ \E f \in Offered(caps[s], wire) :
       LET d == decode(f, caps[s].loopback) IN
       caps' = [caps EXCEPT ![s] =
         IF d = "panic" THEN [@ EXCEPT !.ingest = "panicked"]
         ELSE IF d = "skip" THEN @
         ELSE IF caps[s].pc # "loop" THEN [@ EXCEPT !.ingest = "exited"]
         ELSE IF Len(caps[s].packets) < PacketCap
           THEN [@ EXCEPT !.packets = Append(@, FilteredStream(f, frames'))]
         ELSE @]
  /\ UNCHANGED <<fvars, cmd, cmdOpen, issued, ctl, output, outputOpen,
                 retired, framed, fins>>

\* cap.next_packet() returns a frame: decode it and send it
IngestFrame(s, wire, max) ==
  /\ caps[s].ingest = "running" /\ frames < max
  /\ frames' = frames + 1
  /\ \E f \in Offered(caps[s], wire) :
       LET d == decode(f, caps[s].loopback) IN
       caps' = [caps EXCEPT ![s] =
         IF d = "panic" THEN [@ EXCEPT !.ingest = "panicked"]
         ELSE IF d = "skip" THEN @
         ELSE IF caps[s].pc # "loop" THEN [@ EXCEPT !.ingest = "exited"]
         ELSE IF Len(caps[s].packets) < PacketCap
           THEN [@ EXCEPT !.packets = Append(@, FilteredStream(f, frames'))]
         ELSE [@ EXCEPT !.ingest = "sending",
                        !.held = Some(FilteredStream(f, frames'))]]
  /\ UNCHANGED <<fvars, cmd, cmdOpen, issued, ctl, output, outputOpen,
                 retired, framed, fins>>

\* tx.send(..) blocked on a full channel ends: room, or the receiver gone
IngestSend(s) ==
  /\ caps[s].ingest = "sending"
  /\ \/ /\ caps[s].pc = "loop" /\ Len(caps[s].packets) < PacketCap
        /\ caps' = [caps EXCEPT ![s].packets = Append(@, Unwrap(caps[s].held)),
                                ![s].held = None, ![s].ingest = "running"]
     \/ /\ caps[s].pc # "loop"
        /\ caps' = [caps EXCEPT ![s].held = None, ![s].ingest = "exited"]
  /\ UNCHANGED <<fvars, cmd, cmdOpen, issued, ctl, frames, output,
                 outputOpen, retired, framed, fins>>

\* cap.next_packet() returns Err (the device went away): the loop ends
IngestSourceErr(s, max) ==
  /\ caps[s].ingest = "running" /\ frames < max
  /\ frames' = frames + 1
  /\ caps' = [caps EXCEPT ![s].ingest = "exited"]
  /\ UNCHANGED <<fvars, cmd, cmdOpen, issued, ctl, output,
                 outputOpen, retired, framed, fins>>

\* Within MaxFrames frames the packet channel of a capture cannot fill, so
\* the blocked send (IngestSend) is a step of the specification of the
\* channel, further down, and none of this one.
Next ==
  \/ UiSend \/ UiClose
  \/ ControlStart \/ ControlStop \/ ControlExit
  \/ \E s \in 1..Len(caps) : CaptureOpen(s)
  \/ \E s \in 1..Len(caps) : CapturePacket(s)
  \/ \E s \in 1..Len(caps) : CapturePacketErr(s)
  \/ \E s \in 1..Len(caps) : CaptureCommand(s)
  \/ \E s \in 1..Len(caps) : CaptureCommandErr(s)
  \/ \E s \in 1..Len(caps) : IngestFrame(s, Frames, MaxFrames)
  \/ \E s \in 1..Len(caps) : IngestSourceErr(s, MaxFrames)

Spec == Init /\ [][Next]_vars

\* The threads are scheduled: a step a thread can take is eventually taken.
\* What the UI sends and what the packet source delivers is not forced.
ThreadStep ==
  \/ ControlStart \/ ControlStop \/ ControlExit
  \/ \E s \in 1..Len(caps) :
       \/ CaptureOpen(s) \/ CapturePacket(s) \/ CapturePacketErr(s)
       \/ CaptureCommand(s) \/ CaptureCommandErr(s)
       \/ IngestSend(s)

FairSpec == Spec /\ WF_vars(ThreadStep)

\* The same, thread by thread.  The steps of control_loop:
ControlThread == ControlStart \/ ControlStop \/ ControlExit

\* the steps of the thread of capture s: the open, then one arm of select!
Coordinator(s) ==
  /\ s \in 1..Len(caps)
  /\ \/ CaptureOpen(s) \/ CapturePacket(s) \/ CapturePacketErr(s)
     \/ CaptureCommand(s) \/ CaptureCommandErr(s)

\* the thread of capture s has a step to take: it has yet to open the
\* device, or an arm of its select! is ready (a message, or a channel whose
\* sender is gone)
CoordinatorReady(s) ==
  /\ s \in 1..Len(caps)
  /\ \/ caps[s].pc = "spawned"
     \/ /\ caps[s].pc = "loop"
        /\ \/ caps[s].packets # <<>>
           \/ caps[s].ingest \in {"exited", "panicked"}
           \/ caps[s].commands # <<>>
           \/ ~caps[s].tx

\* Weak fairness of the thread of capture s, written out with the readiness
\* of its select! in the place of ENABLED.
CoordinatorFair(s) ==
  []<>~CoordinatorReady(s) \/ []<><<Coordinator(s)>>_vars

(***************************************************************************)
(* One capture, from the point where capture_loop enters its loop, with a  *)
(* richer wire, a consumer that may go away, and no further command.       *)
(***************************************************************************)
InitCapture ==
  /\ conv = ConvIdle /\ reqMsgs = <<>> /\ respMsgs = <<>>
  /\ table = TableIdle
  /\ ui = UiIdle
  /\ cmd = <<>> /\ cmdOpen = TRUE /\ issued = 1
  /\ ctl = [pc |-> "recv", command_sender |-> Some(1)]
  /\ \E d \in Devices :
       caps = <<[NewCapture(d) EXCEPT !.pc = "loop",
                                      !.loopback = is_loopback(d),
                                      !.ingest = "running"]>>
  /\ frames = 0
  /\ output = <<>> /\ outputOpen = TRUE
  /\ retired = <<>> /\ framed = <<>> /\ fins = {}

NextCapture ==
  \/ IngestFrame(1, CaptureFrames, MaxPackets)
  \/ IngestSourceErr(1, MaxPackets)
  \/ CapturePacket(1)
  \/ CapturePacketErr(1)
  \/ ConsumerDrop

SpecCapture == InitCapture /\ [][NextCapture]_vars

(***************************************************************************)
(* One capture under a burst of packets, with a StopCapture on its way:    *)
(* the UI has sent StartCapture and StopCapture, the control loop has      *)
(* handled the first, and capture_loop has entered its loop.  The burst    *)
(* is long enough to fill the packet channel.                              *)
(***************************************************************************)
\* how many times next_packet returns in this specification
MaxBurst == 7

\* data segments without FIN, both ways
BurstFrames ==
  { TcpFrame("A", "B", <<>>, FALSE),
    TcpFrame("B", "A", <<"200">>, FALSE) }

InitChannel ==
  /\ conv = ConvIdle /\ reqMsgs = <<>> /\ respMsgs = <<>>
  /\ table = TableIdle
  /\ ui = UiIdle
  /\ cmd = <<StopCapture>> /\ cmdOpen = TRUE /\ issued = 2
  /\ ctl = [pc |-> "recv", command_sender |-> Some(1)]
  /\ \E d \in Devices :
       caps = <<[NewCapture(d) EXCEPT !.pc = "loop",
                                      !.loopback = is_loopback(d),
                                      !.ingest = "running"]>>
  /\ frames = 0
  /\ output = <<>> /\ outputOpen = TRUE
  /\ retired = <<>> /\ framed = <<>> /\ fins = {}

NextChannel ==
  \/ ControlStop
  \/ CaptureCommand(1)
  \/ CapturePacket(1)
  \/ CapturePacketErr(1)
  \/ IngestFrame(1, BurstFrames, MaxBurst)
  \/ IngestSend(1)
  \/ IngestSourceErr(1, MaxBurst)

SpecChannel == InitChannel /\ [][NextChannel]_vars

FairChannel == SpecChannel /\ WF_vars(ThreadStep)

(***************************************************************************)
(* One capture in its loop whose channels close: the UI has sent           *)
(* StartCapture, the control loop has handled it, and what follows is      *)
(* nothing or one more StartCapture, and then the UI may drop its sender.  *)
(* The packet source may fail at any time.  A second StartCapture of a     *)
(* device starts a second capture, so there are at most two.               *)
(***************************************************************************)
InitClosure ==
  /\ conv = ConvIdle /\ reqMsgs = <<>> /\ respMsgs = <<>>
  /\ table = TableIdle
  /\ ui = UiIdle
  /\ cmd \in {<<>>, <<StartCapture("eth0")>>, <<StartCapture("nope")>>}
  /\ cmdOpen = TRUE /\ issued = 1 + Len(cmd)
  /\ ctl = [pc |-> "recv", command_sender |-> Some(1)]
  /\ \E d \in Devices :
       caps = <<[NewCapture(d) EXCEPT !.pc = "loop",
                                      !.loopback = is_loopback(d),
                                      !.ingest = "running"]>>
  /\ frames = 0
  /\ output = <<>> /\ outputOpen = TRUE
  /\ retired = <<>> /\ framed = <<>> /\ fins = {}

NextClosure ==
  \/ UiClose
  \/ ControlStart \/ ControlExit
  \/ \E s \in 1..Len(caps) : CaptureOpen(s)
  \/ \E s \in 1..Len(caps) : CapturePacket(s)
  \/ \E s \in 1..Len(caps) : CapturePacketErr(s)
  \/ \E s \in 1..Len(caps) : CaptureCommandErr(s)
  \/ \E s \in 1..Len(caps) : IngestFrame(s, Frames, MaxFrames)
  \/ \E s \in 1..Len(caps) : IngestSourceErr(s, MaxFrames)

SpecClosure == InitClosure /\ [][NextClosure]_vars

\* the threads are scheduled: the control loop, and each of the two captures
FairClosure ==
  /\ SpecClosure
  /\ WF_vars(ControlThread)
  /\ \A s \in 1..2 : CoordinatorFair(s)

(***************************************************************************)
(* The framer alone, on buffers built from up to MaxMsgs messages each.    *)
(***************************************************************************)
InitFramer ==
  /\ reqMsgs \in SeqsUpTo(RequestPieces, MaxMsgs)
  /\ respMsgs \in SeqsUpTo(ResponsePieces, MaxMsgs)
  /\ conv = [self |-> [TcpStream_new(0, 0, "A", "B") EXCEPT
                         !.request = Flatten(reqMsgs),
                         !.response = Flatten(respMsgs),
                         !.fin = <<TRUE, TRUE>>],
             streams |-> <<>>, pc |-> "loop"]
  /\ table = TableIdle
  /\ ui = UiIdle
  /\ cmd = <<>> /\ cmdOpen = TRUE /\ issued = 0
  /\ ctl = [pc |-> "recv", command_sender |-> None]
  /\ caps = <<>>
  /\ frames = 0
  /\ output = <<>> /\ outputOpen = TRUE
  /\ retired = <<>> /\ framed = <<>> /\ fins = {}

\* one turn of the loop of convert_to_http_stream
ConvertIteration ==
  /\ conv.pc = "loop"
  /\ \E canonFirst \in BOOLEAN : conv' = convert_iteration(conv, canonFirst)
  /\ UNCHANGED <<reqMsgs, respMsgs, table, svars>>

NextFramer == ConvertIteration

SpecFramer == InitFramer /\ [][NextFramer]_vars

(***************************************************************************)
(* The flow table alone: a Streams value under calls of its methods, in    *)
(* any order and with any argument.  A call that panics ends the thread    *)
(* that owns the table.                                                    *)
(***************************************************************************)
\* how many calls are made on the table
MaxCalls == 5

TableEndpoints == {"A", "B"}
Timestamps == {1, 2}
\* the slices appended: empty, a text byte, a line that is no start line
Slices == {<<>>, <<"b">>, <<Junk>>}

InitTable ==
  /\ conv = ConvIdle /\ reqMsgs = <<>> /\ respMsgs = <<>>
  /\ table = [self |-> Streams_new, pc |-> "live", calls |-> 0]
  /\ ui = UiIdle
  /\ cmd = <<>> /\ cmdOpen = TRUE /\ issued = 0
  /\ ctl = [pc |-> "recv", command_sender |-> None]
  /\ caps = <<>>
  /\ frames = 0
  /\ output = <<>> /\ outputOpen = TRUE
  /\ retired = <<>> /\ framed = <<>> /\ fins = {}

TableLive == table.pc = "live" /\ table.calls < MaxCalls

\* the table after a call that left `self` and did or did not panic
AfterCall(self, panicked) ==
  [self |-> self, pc |-> IF panicked THEN "panicked" ELSE "live",
   calls |-> table.calls + 1]

TableStore ==
  /\ TableLive
  /\ \E source \in TableEndpoints, dest \in TableEndpoints,
        ts \in Timestamps :
       table' = AfterCall(store(table.self, source, dest, ts).self, FALSE)
  /\ UNCHANGED <<conv, reqMsgs, respMsgs, svars>>

TableAppendRequest ==
  /\ TableLive
  /\ \E index \in 1..(Len(table.self.streams) + 1), bytes \in Slices :
     \E r \in {Streams_append_request_bytes(table.self, index, bytes)} :
       table' = AfterCall(r.self, r.panicked)
  /\ UNCHANGED <<conv, reqMsgs, respMsgs, svars>>

TableAppendResponse ==
  /\ TableLive
  /\ \E index \in 1..(Len(table.self.streams) + 1), bytes \in Slices :
     \E r \in {Streams_append_response_bytes(table.self, index, bytes)} :
       table' = AfterCall(r.self, r.panicked)
  /\ UNCHANGED <<conv, reqMsgs, respMsgs, svars>>

TableRegisterFin ==
  /\ TableLive
  /\ \E index \in 1..(Len(table.self.streams) + 1),
        side \in {Source, Destination} :
       table' = AfterCall(register_fin(table.self, index, side).self, FALSE)
  /\ UNCHANGED <<conv, reqMsgs, respMsgs, svars>>

\* send_stream; Vec::remove panics on an index past the end
TableSendStream ==
  /\ TableLive
  /\ \E index \in 1..(Len(table.self.streams) + 1), canonFirst \in BOOLEAN :
       IF index \in 1..Len(table.self.streams)
         THEN \E ss \in {send_stream(table.self, index, canonFirst)} :
                table' = AfterCall(ss.self, ss.conv.panicked)
         ELSE table' = AfterCall(table.self, TRUE)
  /\ UNCHANGED <<conv, reqMsgs, respMsgs, svars>>

NextTable ==
  \/ TableStore
  \/ TableAppendRequest
  \/ TableAppendResponse
  \/ TableRegisterFin
  \/ TableSendStream

SpecTable == InitTable /\ [][NextTable]_vars


(***************************************************************************)
(* One flow delivered in pieces: a client A sends the bytes of reqMsgs to  *)
(* a server B, which sends back the bytes of respMsgs, each side's bytes   *)
(* cut into consecutive packet payloads at any places, the last payload    *)
(* of a side carrying its FIN (or an empty FIN packet after it).           *)
(***************************************************************************)
\* how many times next_packet returns in this specification
MaxSplit == 6

\* what the client sends and what the server sends
SplitRequests ==
  { <<Msg("GET /b", <<"CL1">>, <<"b">>)>>,
    <<Msg("GET /a", <<>>, <<>>), Msg("GET /b", <<"CL1">>, <<"b">>)>> }
SplitResponses ==
  { <<Msg("204", <<"CL0">>, <<>>), Msg("200", <<"CL1">>, <<"b">>)>>,
    <<Msg("200", <<"CL2">>, <<"b">>)>> }

\* the packets of capture s still in its channel or held by a blocked send
InFlight(s) == caps[s].packets \o caps[s].held

\* the payload bytes of a sequence of packets sent by src, in order
RECURSIVE PayloadOf(_, _)
PayloadOf(packets, src) ==
  IF packets = <<>> THEN <<>>
  ELSE (IF Head(packets).src = src THEN Head(packets).payload ELSE <<>>)
       \o PayloadOf(Tail(packets), src)

\* the bytes src has sent so far out of `whole`: those in the flow's
\* buffer and those in flight
SentBy(s, src, whole) ==
  IF retired # <<>> THEN whole
  ELSE (IF caps[s].streams.streams = <<>> THEN <<>>
        ELSE IF src = "A" THEN caps[s].streams.streams[1].request
        ELSE caps[s].streams.streams[1].response)
       \o PayloadOf(InFlight(s), src)

\* src has sent its FIN
FinSentBy(s, src) ==
  \/ retired # <<>>
  \/ /\ caps[s].streams.streams # <<>>
     /\ caps[s].streams.streams[1].fin[IF src = "A" THEN 1 ELSE 2]
  \/ \E i \in 1..Len(InFlight(s)) :
       InFlight(s)[i].src = src /\ InFlight(s)[i].fin

\* the packets src may send next: a piece of what is left without FIN, or
\* all that is left (possibly nothing) with FIN
PiecesOf(s, src, dest, whole) ==
  IF FinSentBy(s, src) THEN {}
  ELSE {TcpFrame(src, dest,
                 Take(Drop(whole, Len(SentBy(s, src, whole))), k), FALSE) :
          k \in 1..(Len(whole) - Len(SentBy(s, src, whole)))}
       \cup {TcpFrame(src, dest, Drop(whole, Len(SentBy(s, src, whole))), TRUE)}

\* the client's packets, and once the client has sent one, the server's
PiecesLeft ==
  PiecesOf(1, "A", "B", Flatten(reqMsgs)) \cup
  (IF frames = 0 THEN {} ELSE PiecesOf(1, "B", "A", Flatten(respMsgs)))

InitSplit ==
  /\ reqMsgs \in SplitRequests /\ respMsgs \in SplitResponses
  /\ conv = ConvIdle
  /\ table = TableIdle
  /\ ui = UiIdle
  /\ cmd = <<>> /\ cmdOpen = TRUE /\ issued = 1
  /\ ctl = [pc |-> "recv", command_sender |-> Some(1)]
  /\ caps = <<[NewCapture("eth0") EXCEPT !.pc = "loop",
                                           !.loopback = is_loopback("eth0"),
                                           !.ingest = "running"]>>
  /\ frames = 0
  /\ output = <<>> /\ outputOpen = TRUE
  /\ retired = <<>> /\ framed = <<>> /\ fins = {}

NextSplit ==
  \/ IngestFrame(1, PiecesLeft, MaxSplit)
  \/ IngestSend(1)
  \/ CapturePacket(1)

SpecSplit == InitSplit /\ [][NextSplit]_vars


(***************************************************************************)
(* The UI: State of ui/mod.rs under the loop of run_app.  The scroll       *)
(* position of the details pane and the status line take no part in what   *)
(* is sent or selected and are left out, as are the keys that touch        *)
(* nothing else ("Other").                                                 *)
(***************************************************************************)
\* how many events run_app handles, how many transactions arrive, and how
\* many devices Device::list() may return
MaxKeys == 6
MaxRows == 2
MaxDevices == 2

Keys == {"q", "c", "s", "h", "Up", "Down", "Tab", "Esc", "Enter", "Other"}

\* device_list(): the names of the n devices of the system
device_names(n) ==
  [i \in 1..n |-> IF i = 1 THEN "eth0" ELSE IF i = 2 THEN "lo0" ELSE "any"]

\* State::new over a system with n devices; run_app is about to draw
State_new(n) ==
  [pc |-> "draw", capture_state |-> "Inactive",
   selected_window |-> "PacketList", stream_items |-> 0,
   selected_stream |-> None, devices |-> n, selected_device |-> None,
   sent |-> <<>>, keys |-> 0]

move_up(pos) ==
  IF IsSome(pos)
    THEN IF Unwrap(pos) = 0 THEN Some(0) ELSE Some(Unwrap(pos) - 1)
    ELSE Some(0)

move_down(pos, len) ==
  IF IsSome(pos)
    THEN IF Unwrap(pos) + 1 = len THEN Some(Unwrap(pos))
         ELSE Some(Unwrap(pos) + 1)
    ELSE Some(0)

\* self.commands.send(c).unwrap(): Err, and the panic, once the control
\* loop has dropped the receiver
commands_send(u, c, alive) ==
  IF alive THEN [u EXCEPT !.sent = Append(@, c)]
  ELSE [u EXCEPT !.pc = "panicked"]

\* the guard of the 'c' key as it would be without the look at
\* capture_state
may_choose_device_always(u) == TRUE

\* the guard of the 'c' key
may_choose_device(u) == u.capture_state = "Inactive"

handle_key_stream_list(u, key) ==
  IF key = "Up" THEN [u EXCEPT !.selected_stream = move_up(@)]
  ELSE IF key = "Down"
    THEN [u EXCEPT !.selected_stream = move_down(@, u.stream_items)]
  ELSE IF key = "Tab" THEN [u EXCEPT !.selected_window = "PacketDetails"]
  ELSE u

handle_key_http_info(u, key) ==
  IF key = "Tab" THEN [u EXCEPT !.selected_window = "PacketList"] ELSE u

handle_key_device_widget(u, key, alive) ==
  IF key = "Esc" THEN [u EXCEPT !.selected_window = "PacketList"]
  ELSE IF key = "Up" THEN [u EXCEPT !.selected_device = move_up(@)]
  ELSE IF key = "Down"
    THEN [u EXCEPT !.selected_device = move_down(@, u.devices)]
  ELSE IF key = "Enter"
    THEN IF ~IsSome(u.selected_device) THEN u
         \* get_selected_device_name: device_names.get(selected).unwrap()
         ELSE IF Unwrap(u.selected_device) >= u.devices
           THEN [u EXCEPT !.pc = "panicked"]
         ELSE commands_send(
                [u EXCEPT !.selected_window = "PacketList",
                          !.capture_state = "Active"],
                StartCapture(device_names(u.devices)
                               [Unwrap(u.selected_device) + 1]),
                alive)
  ELSE u

\* the window's handler, after the global shortcuts
handle_window_key(u, key, alive) ==
  IF u.pc = "panicked" THEN u
  ELSE IF u.selected_window = "PacketList"
    THEN handle_key_stream_list(u, key)
  ELSE IF u.selected_window = "PacketDetails"
    THEN handle_key_http_info(u, key)
  ELSE IF u.selected_window = "Help"
    THEN [u EXCEPT !.pc = "panicked"]      \* todo!()
  ELSE IF u.selected_window = "DeviceChooser"
    THEN handle_key_device_widget(u, key, alive)
  ELSE u

\* handle_event of a key event; pc "quit" stands for the return of false
handle_event(u, key, alive) ==
  IF key = "q"
    THEN IF u.capture_state = "Active"
           THEN IF alive
                  THEN [commands_send(u, StopCapture, alive)
                          EXCEPT !.pc = "quit"]
                  ELSE commands_send(u, StopCapture, alive)
           ELSE [u EXCEPT !.pc = "quit"]
  ELSE IF key = "c" /\ may_choose_device(u)
    THEN [u EXCEPT !.selected_window = "DeviceChooser"]
  ELSE IF key = "s" /\ u.capture_state = "Active"
    THEN handle_window_key(
           commands_send([u EXCEPT !.capture_state = "Inactive"],
                         StopCapture, alive),
           key, alive)
  ELSE IF key = "h"
    THEN handle_window_key([u EXCEPT !.selected_window = "Help"], key, alive)
  ELSE handle_window_key(u, key, alive)

\* add_stream: the row is pushed when the conversion succeeds
add_stream(u, ok) ==
  IF ok THEN [u EXCEPT !.stream_items = @ + 1] ELSE u

\* What render_stateful_widget may leave in a selection over len rows.  The
\* widget library is none of this repository's code: its releases differ in
\* whether rendering leaves a selection beyond the rows alone, moves it to
\* the last row, or (over no rows) clears it.
RenderSelect(sel, len) ==
  {sel} \cup
  (IF IsSome(sel) /\ Unwrap(sel) >= len
     THEN IF len = 0 THEN {None, Some(0)} ELSE {Some(len - 1)}
     ELSE {})

\* the variables the UI's steps leave alone
uvars == <<conv, reqMsgs, respMsgs, table, cmdOpen, issued, caps, frames,
           output, outputOpen, retired, framed, fins>>

InitUi ==
  /\ conv = ConvIdle /\ reqMsgs = <<>> /\ respMsgs = <<>>
  /\ table = TableIdle
  /\ ui \in {State_new(n) : n \in 0..MaxDevices}
  /\ cmd = <<>> /\ cmdOpen = TRUE /\ issued = 0
  /\ ctl = [pc |-> "recv", command_sender |-> None]
  /\ caps = <<>>
  /\ frames = 0
  /\ output = <<>> /\ outputOpen = TRUE
  /\ retired = <<>> /\ framed = <<>> /\ fins = {}

\* terminal.draw(|f| state.draw_ui(f)): the stream table is rendered, and
\* the device list when the chooser is open
UiDraw ==
  /\ ui.pc = "draw"
  /\ \E st \in RenderSelect(ui.selected_stream, ui.stream_items) :
     \E dv \in IF ui.selected_window = "DeviceChooser"
                 THEN RenderSelect(ui.selected_device, ui.devices)
                 ELSE {ui.selected_device} :
       ui' = [ui EXCEPT !.pc = "select", !.selected_stream = st,
                        !.selected_device = dv]
  /\ UNCHANGED <<uvars, cmd, ctl>>

\* recv(event_rx) -> Ok(evt): handle_event
UiKey ==
  /\ ui.pc = "select" /\ ui.keys < MaxKeys
  /\ \E key \in Keys :
     \E n \in {handle_event(ui, key, ctl.pc = "recv")} :
       /\ ui' = [n EXCEPT !.keys = @ + 1,
                          !.pc = IF n.pc = "select" THEN "draw" ELSE n.pc]
       /\ cmd' = IF Len(n.sent) > Len(ui.sent)
                   THEN Append(cmd, n.sent[Len(n.sent)])
                   ELSE cmd
  /\ UNCHANGED <<uvars, ctl>>

\* recv(state.input) -> Ok(stream): add_stream
UiStream ==
  /\ ui.pc = "select" /\ ui.stream_items < MaxRows
  /\ \E ok \in BOOLEAN : ui' = [add_stream(ui, ok) EXCEPT !.pc = "draw"]
  /\ UNCHANGED <<uvars, cmd, ctl>>

\* recv(state.input) -> Err: the senders of the output channel are gone
UiInputErr ==
  /\ ui.pc = "select" /\ ctl.pc # "recv"
  /\ ui' = [ui EXCEPT !.pc = "returned"]
  /\ UNCHANGED <<uvars, cmd, ctl>>

\* the control loop receives the command at the head of its channel
ControlTake ==
  /\ ctl.pc = "recv" /\ cmd # <<>>
  /\ cmd' = Tail(cmd)
  /\ UNCHANGED <<uvars, ctl, ui>>

\* the control loop panics on the command it receives and drops the
\* receiver with what is left in the channel
ControlGone ==
  /\ ctl.pc = "recv" /\ cmd # <<>>
  /\ ctl' = [ctl EXCEPT !.pc = "panicked"]
  /\ cmd' = <<>>
  /\ UNCHANGED <<uvars, ui>>

NextUi ==
  \/ UiDraw \/ UiKey \/ UiStream \/ UiInputErr
  \/ ControlTake \/ ControlGone

SpecUi == InitUi /\ [][NextUi]_vars


(***************************************************************************)
(* Properties.                                                             *)
(***************************************************************************)
Sessions == 1..Len(caps)

\* the flow ids a FIN or a retirement of capture s was recorded for
FlowIds(s) ==
  {f[2] : f \in {g \in fins : g[1] = s}} \cup
  {retired[k].id : k \in {j \in 1..Len(retired) : retired[j].cap = s}}

BothFins(s, id) ==
  <<s, id, Source>> \in fins /\ <<s, id, Destination>> \in fins

Retirements(s, id) ==
  Cardinality({k \in 1..Len(retired) :
                 retired[k].cap = s /\ retired[k].id = id})

Framings(s, id) ==
  Cardinality({k \in 1..Len(framed) :
                 framed[k].cap = s /\ framed[k].id = id})

\* C1: a flow whose Source side and whose Destination side have both had
\* a FIN packet handled has been removed from the table exactly once and
\* framed exactly once; a flow with at most one side's FIN handled has
\* been removed and framed not at all.  Holding in every state, this puts
\* the removal in the handler of the packet that sets the second FIN flag.
C1_RetiredExactlyOnce ==
  \A s \in Sessions : \A id \in FlowIds(s) :
    /\ Retirements(s, id) = IF BothFins(s, id) THEN 1 ELSE 0
    /\ Framings(s, id) = IF BothFins(s, id) THEN 1 ELSE 0

\* C1 witness: a flow has been retired after a FIN from both of its
\* sides while another flow of the same capture has had one FIN only
C1_Witness ==
  \E s \in Sessions :
    /\ \E id \in FlowIds(s) : BothFins(s, id) /\ Retirements(s, id) = 1
    /\ \E id \in FlowIds(s) : ~BothFins(s, id)

\* the messages of the wire of the framer specification that carry a
\* Content-Encoding other than gzip
UnknownEncodingResponses ==
  { Msg("200", <<"CL1", "CEbr">>, <<"b">>),
    Msg("204", <<"CEbr">>, <<>>) }

ConcatOf(msgs, pieces) == \A i \in 1..Len(msgs) : msgs[i] \in pieces

\* C2: when the request buffer is m complete requests and the response
\* buffer is n complete responses (none with an encoding the framer is
\* meant to reject), convert_to_http_stream returns min(m, n) transactions.
C2_EmitsMinPairs ==
  ( /\ conv.pc \in {"returned", "panicked"}
    /\ ConcatOf(reqMsgs, CompleteRequests)
    /\ ConcatOf(respMsgs, CompleteResponses \ UnknownEncodingResponses) )
  => /\ conv.pc = "returned"
     /\ Len(conv.streams) = Min(Len(reqMsgs), Len(respMsgs))

\* the k-th request (response) of a buffer, parsing it from the front.
\* No message of the wire carries Content-Length in two spellings, so the
\* order of the header map plays no part.
RECURSIVE RequestAt(_, _)
RequestAt(buf, k) ==
  IF k = 1 THEN parse_request(buf, TRUE).msg
  ELSE RequestAt(parse_request(buf, TRUE).rest, k - 1)

RECURSIVE ResponseAt(_, _)
ResponseAt(buf, k) ==
  IF k = 1 THEN parse_response(buf, TRUE).msg
  ELSE ResponseAt(parse_response(buf, TRUE).rest, k - 1)

\* what the output channel was sent for flow id of capture s, in order
OutputOf(s, id) ==
  SelectSeq(output, LAMBDA o : o.cap = s /\ o.stream.id = id)

\* C3: for every retired flow whose transactions were delivered, the k-th
\* transaction on the output channel for that flow holds the k-th request
\* of the flow's request buffer and the k-th response of its response
\* buffer.
C3_PairsInRequestOrder ==
  \A r \in 1..Len(retired) :
    retired[r].delivered =>
      \A k \in 1..Len(OutputOf(retired[r].cap, retired[r].id)) :
        /\ OutputOf(retired[r].cap, retired[r].id)[k].stream.parsed_request
             = RequestAt(retired[r].request, k)
        /\ OutputOf(retired[r].cap, retired[r].id)[k].stream.parsed_response
             = ResponseAt(retired[r].response, k)

\* C3 witness: a flow with two different requests and two different
\* responses was retired and both transactions reached the output channel
C3_Witness ==
  \E r \in 1..Len(retired) :
    /\ retired[r].delivered
    /\ Len(OutputOf(retired[r].cap, retired[r].id)) = 2
    /\ OutputOf(retired[r].cap, retired[r].id)[1].stream.parsed_request.line
         # OutputOf(retired[r].cap, retired[r].id)[2].stream.parsed_request.line
    /\ OutputOf(retired[r].cap, retired[r].id)[1].stream.parsed_response.line
         # OutputOf(retired[r].cap, retired[r].id)[2].stream.parsed_response.line

\* the control loop takes a StartCapture from its channel in this step
TakesStart ==
  /\ ctl.pc = "recv" /\ cmd # <<>> /\ Head(cmd).t = "StartCapture"
  /\ cmd' = Tail(cmd)

\* the capture the control loop holds the sender of is in its loop
CaptureActive ==
  /\ IsSome(ctl.command_sender)
  /\ caps[Unwrap(ctl.command_sender)].pc = "loop"
  /\ caps[Unwrap(ctl.command_sender)].tx

\* C4: a StartCapture the control loop takes while a capture is active
\* starts no capture thread and leaves the running capture, its flow table
\* and its command channel as they are.
C4_StartIgnoredWhileActive ==
  [][(TakesStart /\ CaptureActive) => (caps' = caps /\ ctl' = ctl)]_vars

\* the packet thread of capture s has ended
IngestEnded(s) == caps[s].ingest \in {"exited", "panicked"}

\* C5: once capture_loop has returned on StopCapture, the packet thread of
\* that capture eventually ends.  (The specification of the channel has
\* the one capture, caps[1].)
C5_StopEndsIngest == (caps[1].pc = "stopped") ~> IngestEnded(1)

\* what the output channel was sent by capture s, in order
OutputOfCap(s) == SelectSeq(output, LAMBDA o : o.cap = s)

RetiredOfCap(s) == SelectSeq(retired, LAMBDA r : r.cap = s)

\* C6: in the step in which capture s handles StopCapture, and in every
\* step after it, nothing is sent to the output channel by s and no flow
\* of s is retired or framed, and the flow table of s is gone; and a
\* StartCapture the control loop takes once its capture has stopped starts
\* a new capture thread, whose sender the control loop then holds.
C6_StopDiscardsFlows ==
  [][ /\ \A s \in Sessions :
           caps'[s].pc = "stopped" =>
             /\ OutputOfCap(s)' = OutputOfCap(s)
             /\ RetiredOfCap(s)' = RetiredOfCap(s)
             /\ caps'[s].streams = Streams_new
      /\ ( /\ TakesStart
           /\ Head(cmd).iface \in Devices
           /\ IsSome(ctl.command_sender)
           /\ caps[Unwrap(ctl.command_sender)].pc = "stopped" )
         => /\ Len(caps') = Len(caps) + 1
            /\ caps'[Len(caps')] = NewCapture(Head(cmd).iface)
            /\ ctl' = [pc |-> "recv", command_sender |-> Some(Len(caps'))]
    ]_vars

\* C6 witness: a capture that had a flow with one FIN in its table was
\* stopped, and the StartCapture after it has started the next capture
C6_Witness ==
  \E s \in Sessions :
    /\ caps[s].pc = "stopped"
    /\ \E id \in FlowIds(s) : ~BothFins(s, id) /\ Retirements(s, id) = 0
    /\ Len(caps) = s + 1
    /\ caps[s + 1].pc = "loop"
    /\ ctl = [pc |-> "recv", command_sender |-> Some(s + 1)]

\* C7: convert_to_http_stream never panics.
C7_FramerNeverPanics == conv.pc # "panicked"

\* C8: the packet thread survives every frame: it never panics on one.
C8_IngestSurvivesFrames ==
  \A s \in Sessions : caps[s].ingest # "panicked"

\* the buffer starts with a message whose header block is whole and which
\* declares a Content-Length greater than the bytes that follow the block
DeclaresMore(buf, startLines) ==
  /\ httparse(buf, startLines).status = "Complete"
  /\ HeadersUtf8(httparse(buf, startLines).headers)
  /\ \A canonFirst \in BOOLEAN :
       /\ IsSome(get_content_length(
                   HeaderMap(httparse(buf, startLines).headers), canonFirst))
       /\ Unwrap(get_content_length(
                   HeaderMap(httparse(buf, startLines).headers), canonFirst))
            > Len(buf) - httparse(buf, startLines).len

\* parse_request succeeds on the buffer
RequestParses(buf) ==
  \A canonFirst \in BOOLEAN : parse_request(buf, canonFirst).res = "Ok"

\* C9: a turn of the framer's loop that meets a request, or after a
\* request that parses a response, declaring more body than the buffer
\* holds ends the loop without a panic and with the transactions framed
\* so far.
C9_ShortBodyStopsLoop ==
  [][ ( /\ conv.pc = "loop"
        /\ \/ DeclaresMore(conv.self.request, ReqLines)
           \/ /\ RequestParses(conv.self.request)
              /\ DeclaresMore(conv.self.response, RespLines) )
      => (conv'.pc = "returned" /\ conv'.streams = conv.streams) ]_vars

\* the buffer starts with a response whose header block is whole and
\* carries Content-Encoding with a value other than gzip
OtherEncoding(buf) ==
  /\ httparse(buf, RespLines).status = "Complete"
  /\ HeadersUtf8(httparse(buf, RespLines).headers)
  /\ "Content-Encoding" \in HeaderNames(httparse(buf, RespLines).headers)
  /\ HeaderMap(httparse(buf, RespLines).headers)["Content-Encoding"] # "gzip"

\* C10: a turn of the framer's loop whose response carries a
\* Content-Encoding other than gzip emits no transaction and ends the loop.
C10_UnknownEncodingFails ==
  [][ ( /\ conv.pc = "loop"
        /\ RequestParses(conv.self.request)
        /\ OtherEncoding(conv.self.response) )
      => (conv'.pc # "loop" /\ conv'.streams = conv.streams) ]_vars

\* how many transactions the loop of convert_to_http_stream has pushed when
\* it stops on buffers `request` and `response`, however it stops.  (No
\* message of the wire of a capture carries Content-Length in two
\* spellings.)
FramedBefore(request, response) ==
  Len(convert_loop([self |-> [TcpStream_new(0, 0, "A", "B") EXCEPT
                                !.request = request,
                                !.response = response],
                    streams |-> <<>>, pc |-> "loop"], TRUE).streams)

\* C11: while the consumer holds the output channel, every retired flow
\* has on the output channel all the transactions the framer had framed
\* before the message it stopped on.
C11_EarlierPairsSurvive ==
  outputOpen =>
    \A r \in 1..Len(retired) :
      Len(OutputOf(retired[r].cap, retired[r].id))
        = FramedBefore(retired[r].request, retired[r].response)

\* the response buffer is empty or ends before its header block does
ResponseCutShort(buf) == httparse(buf, RespLines).status = "Partial"

\* C12: a turn of the framer's loop whose request parses and whose response
\* buffer is empty or ends mid-headers ends the loop with the transactions
\* framed so far and consumes the request; a turn on an empty request
\* buffer or an empty response buffer emits nothing and ends the loop.  On
\* the first turn this leaves zero transactions.
C12_UnmatchedRequestDropped ==
  [][ conv.pc = "loop" =>
        /\ ( /\ RequestParses(conv.self.request)
             /\ ResponseCutShort(conv.self.response) )
           => /\ conv'.pc = "returned"
              /\ conv'.streams = conv.streams
              /\ conv'.self.request
                   = parse_request(conv.self.request, TRUE).rest
        /\ conv.self.request = <<>>
           => (conv'.pc = "returned" /\ conv'.streams = conv.streams)
        /\ conv.self.response = <<>>
           => (conv'.pc # "loop" /\ conv'.streams = conv.streams) ]_vars

\* C12 witness: after one transaction the second request parsed, the
\* response buffer ended mid-headers, and the framer returned the one
\* transaction with the second request consumed
C12_Witness ==
  /\ conv.pc = "returned"
  /\ Len(reqMsgs) = 2 /\ ConcatOf(reqMsgs, CompleteRequests)
  /\ Len(conv.streams) = 1
  /\ conv.self.request = <<>>
  /\ conv.self.response = <<"200", "Host">>

\* capture s handles the packet at the head of its channel in this step
HandlesPacket(s) ==
  /\ caps[s].pc = "loop" /\ caps[s].packets # <<>>
  /\ caps' # caps /\ frames' = frames

\* the FIN flag of the side opposite to `side`
OtherFin(flow, side) == IF side = Source THEN flow.fin[2] ELSE flow.fin[1]

\* the packet is one of the flow, sent by `side`, and is not a FIN that
\* finds the other side's FIN flag set
KeepsOpen(flow, packet, side) ==
  /\ same_parties(flow, packet.src, packet.dest) = Some(side)
  /\ ~(packet.fin /\ OtherFin(flow, side))

\* the flow after a packet of `side` that keeps it open
Extended(flow, packet, side) ==
  [flow EXCEPT
     !.request = IF side = Source THEN @ \o packet.payload ELSE @,
     !.response = IF side = Destination THEN @ \o packet.payload ELSE @,
     !.fin = <<@[1] \/ (packet.fin /\ side = Source),
               @[2] \/ (packet.fin /\ side = Destination)>>]

\* C13: when capture s handles a packet, (1) a flow of the table the
\* packet belongs to, unless the packet is a FIN finding the other side's
\* FIN flag set, stays at its place in the table with the payload appended
\* to the buffer of the packet's side and nothing else changed but that
\* side's FIN flag, the handler does not panic, and the flow stays unframed
\* and without output; (2) a flow the packet does not belong to stays in
\* the table as it is while the capture runs; (3) a conversion is run only
\* on a flow of the table for which the packet is a FIN finding the other
\* side's FIN flag set.
C13_OpenFlowStays ==
  [][ \A s \in Sessions : HandlesPacket(s) =>
        /\ \A i \in 1..Len(caps[s].streams.streams) :
           \A id \in {caps[s].streams.streams[i].id} :
             /\ \A side \in {Source, Destination} :
                  KeepsOpen(caps[s].streams.streams[i],
                            Head(caps[s].packets), side)
                  => /\ caps'[s].pc = "loop"
                     /\ Len(caps'[s].streams.streams)
                          = Len(caps[s].streams.streams)
                     /\ caps'[s].streams.streams[i]
                          = Extended(caps[s].streams.streams[i],
                                     Head(caps[s].packets), side)
                     /\ Framings(s, id)' = 0
                     /\ OutputOf(s, id)' = <<>>
             /\ ( /\ same_parties(caps[s].streams.streams[i],
                                  Head(caps[s].packets).src,
                                  Head(caps[s].packets).dest) = None
                  /\ caps'[s].pc = "loop" )
                => \E j \in 1..Len(caps'[s].streams.streams) :
                     caps'[s].streams.streams[j] = caps[s].streams.streams[i]
        /\ \A k \in (Len(framed) + 1)..Len(framed') :
             \E i \in 1..Len(caps[s].streams.streams) :
             \E side \in {Source, Destination} :
               /\ caps[s].streams.streams[i].id = framed'[k].id
               /\ same_parties(caps[s].streams.streams[i],
                               Head(caps[s].packets).src,
                               Head(caps[s].packets).dest) = Some(side)
               /\ Head(caps[s].packets).fin
               /\ OtherFin(caps[s].streams.streams[i], side) ]_vars

\* C13 witness: a flow that had a FIN from its Source side only, data both
\* ways and four packets in all is still in the table, unframed
C13_Witness ==
  \E s \in Sessions :
    /\ caps[s].pc = "loop" /\ caps[s].packets = <<>> /\ frames >= 4
    /\ Len(caps[s].streams.streams) = 1
    /\ caps[s].streams.streams[1].fin = <<TRUE, FALSE>>
    /\ Len(caps[s].streams.streams[1].request) > 4
    /\ caps[s].streams.streams[1].response # <<>>
    /\ framed = <<>> /\ output = <<>>

\* the ids of the flows in a table
IdsOf(streams) == {streams.streams[i].id : i \in 1..Len(streams.streams)}

\* every id capture s has given a flow so far: the flows it holds or has
\* retired
PreviousIds(s) ==
  IdsOf(caps[s].streams) \cup
  {retired[k].id : k \in {j \in 1..Len(retired) : retired[j].cap = s}}

\* no flow of the table has the packet's endpoints as its parties
Misses(streams, packet) ==
  \A i \in 1..Len(streams.streams) :
    same_parties(streams.streams[i], packet.src, packet.dest) = None

\* C14: when capture s handles a packet whose endpoints no flow of the
\* table has, store puts one flow at the end of the table whose id is
\* greater than every id the capture has given before, and the counter
\* advances by one; when a flow of the table has them, no flow appears
\* and the counter stays.
C14_IdsIncrease ==
  [][ \A s \in Sessions : HandlesPacket(s) =>
        IF Misses(caps[s].streams, Head(caps[s].packets))
          THEN /\ caps'[s].pc = "loop"
               /\ Len(caps'[s].streams.streams)
                    = Len(caps[s].streams.streams) + 1
               /\ \A id \in PreviousIds(s) :
                    caps'[s].streams.streams[
                      Len(caps'[s].streams.streams)].id > id
               /\ caps'[s].streams.next_id = caps[s].streams.next_id + 1
          ELSE caps'[s].pc = "loop" =>
                 /\ caps'[s].streams.next_id = caps[s].streams.next_id
                 /\ IdsOf(caps[s].streams)' \subseteq IdsOf(caps[s].streams)
    ]_vars

\* C14 witness: the capture has retired one flow and holds two more, after
\* three ids given
C14_Witness ==
  \E s \in Sessions :
    /\ caps[s].pc = "loop"
    /\ Retirements(s, 0) = 1
    /\ IdsOf(caps[s].streams) = {1, 2}
    /\ caps[s].streams.next_id = 3

\* the flows created so far, each as <<capture, id>>: those a capture
\* holds, and those a FIN or a retirement was recorded for
FlowsSeen ==
  UNION {{<<s, id>> : id \in FlowIds(s) \cup IdsOf(caps[s].streams)} :
           s \in Sessions}

\* C15: no two flows created during the run carry the same id, be they of
\* one capture or of two.
C15_IdsUniqueInRun ==
  /\ \A f \in FlowsSeen : \A g \in FlowsSeen : f[2] = g[2] => f = g
  /\ \A s \in Sessions :
     \A i \in 1..Len(caps[s].streams.streams) :
     \A j \in 1..Len(caps[s].streams.streams) :
       caps[s].streams.streams[i].id = caps[s].streams.streams[j].id => i = j

\* lookup_stream gives the two orders of a pair of endpoints nothing both
\* times, or the same index with opposite sides
Mirrored(self, a, b) ==
  \/ /\ lookup_stream(self, a, b) = None
     /\ lookup_stream(self, b, a) = None
  \/ /\ IsSome(lookup_stream(self, a, b))
     /\ IsSome(lookup_stream(self, b, a))
     /\ Unwrap(lookup_stream(self, a, b))[1]
          = Unwrap(lookup_stream(self, b, a))[1]
     /\ {Unwrap(lookup_stream(self, a, b))[2],
         Unwrap(lookup_stream(self, b, a))[2]} = {Source, Destination}

\* C16 as stated: in every table state, for all endpoints a and b,
\* lookup(a, b) and lookup(b, a) are both None or the same index with
\* opposite sides.
C16_LookupMirroredAll ==
  table.pc = "live" =>
    \A a \in TableEndpoints : \A b \in TableEndpoints :
      Mirrored(table.self, a, b)

\* C16 amended: the same for all endpoints a and b that differ.
C16_LookupMirrored ==
  table.pc = "live" =>
    \A a \in TableEndpoints : \A b \in TableEndpoints :
      a # b => Mirrored(table.self, a, b)

\* C16 witness: a table whose second flow is found from both orders of its
\* endpoints, and that has no flow for another pair
C16_Witness ==
  /\ table.pc = "live"
  /\ lookup_stream(table.self, "A", "B") = Some(<<2, Destination>>)
  /\ lookup_stream(table.self, "B", "A") = Some(<<2, Source>>)
  /\ lookup_stream(table.self, "B", "B") = None

\* what store(source, dest, ts) does on table `self`, `r` being its outcome
StorePost(self, source, dest, ts, r) ==
  IF IsSome(lookup_stream(self, source, dest))
    THEN /\ r.ret = Unwrap(lookup_stream(self, source, dest))
         /\ r.self = self
    ELSE /\ Len(r.self.streams) = Len(self.streams) + 1
         /\ Take(r.self.streams, Len(self.streams)) = self.streams
         /\ r.self.streams[Len(r.self.streams)].source = source
         /\ r.self.streams[Len(r.self.streams)].destination = dest
         /\ r.self.streams[Len(r.self.streams)].timestamp = ts
         /\ r.self.streams[Len(r.self.streams)].id \notin IdsOf(self)
         /\ r.self.streams[Len(r.self.streams)].request = <<>>
         /\ r.self.streams[Len(r.self.streams)].response = <<>>
         /\ r.self.streams[Len(r.self.streams)].fin = <<FALSE, FALSE>>
         /\ r.ret = <<Len(r.self.streams), Source>>

\* in every table state, store does the above for every argument
StoreInv ==
  table.pc = "live" =>
    \A source \in TableEndpoints : \A dest \in TableEndpoints :
    \A ts \in Timestamps :
      StorePost(table.self, source, dest, ts,
                store(table.self, source, dest, ts))

\* a flow that stays in the table keeps its endpoints, and a lookup of
\* them in the order of its creation finds it as Source
KeepsSource ==
  \A i \in 1..Len(table.self.streams) :
  \A f \in {table.self.streams[i]} :
  \A j \in 1..Len(table'.self.streams) :
    table'.self.streams[j].id = f.id
    => /\ table'.self.streams[j].source = f.source
       /\ table'.self.streams[j].destination = f.destination
       /\ lookup_stream(table'.self, f.source, f.destination)
            = Some(<<j, Source>>)

\* C17: store returns the lookup's hit and leaves the table as it is, or on
\* a miss appends one flow with the given source, destination and
\* timestamp, an id no flow of the table has, empty buffers and both FIN
\* flags false, and returns its index with Source; and no call on the
\* table changes the endpoints of a flow or the side its creator is found
\* as.
C17_StoreCreatesOrFinds ==
  []StoreInv /\ [][table.pc = "live" /\ table'.pc = "live" => KeepsSource]_vars

\* C17 witness: after three calls the table holds the two flows two stores
\* created, the second one from B to A at timestamp 2
C17_Witness ==
  /\ table.pc = "live" /\ table.calls = 3
  /\ table.self.streams = <<TcpStream_new(0, 1, "A", "A"),
                            TcpStream_new(1, 2, "B", "A")>>

\* table `after` is table `before` but for the flow at `index`, which has
\* `req` after its request bytes and `resp` after its response bytes and
\* is otherwise the same
AppendPost(before, after, index, req, resp) ==
  /\ after.next_id = before.next_id
  /\ Len(after.streams) = Len(before.streams)
  /\ \A j \in 1..Len(before.streams) :
       j # index => after.streams[j] = before.streams[j]
  /\ after.streams[index].request = before.streams[index].request \o req
  /\ after.streams[index].response = before.streams[index].response \o resp
  /\ after.streams[index].fin = before.streams[index].fin
  /\ after.streams[index].id = before.streams[index].id
  /\ after.streams[index].timestamp = before.streams[index].timestamp
  /\ after.streams[index].source = before.streams[index].source
  /\ after.streams[index].destination = before.streams[index].destination

\* C18: in every table state, for every flow and every slice, the append
\* of the Source side puts the slice after the flow's request bytes and
\* the append of the Destination side puts it after the flow's response
\* bytes; neither panics nor changes anything else, and with the empty
\* slice the table is as before.
C18_AppendExtendsOneBuffer ==
  table.pc = "live" =>
    \A index \in 1..Len(table.self.streams) : \A bytes \in Slices :
      /\ ~Streams_append_request_bytes(table.self, index, bytes).panicked
      /\ AppendPost(table.self,
           Streams_append_request_bytes(table.self, index, bytes).self,
           index, bytes, <<>>)
      /\ ~Streams_append_response_bytes(table.self, index, bytes).panicked
      /\ AppendPost(table.self,
           Streams_append_response_bytes(table.self, index, bytes).self,
           index, <<>>, bytes)
      /\ bytes = <<>> =>
           /\ Streams_append_request_bytes(table.self, index, bytes).self
                = table.self
           /\ Streams_append_response_bytes(table.self, index, bytes).self
                = table.self

\* C18 witness: a flow has had two different slices appended to its
\* request bytes and one to its response bytes
C18_Witness ==
  /\ table.pc = "live"
  /\ Len(table.self.streams) = 1
  /\ table.self.streams[1].request = <<"b", Junk>>
  /\ table.self.streams[1].response = <<Junk>>

\* what register_fin(index, side) does on table `self`, `r` being its
\* outcome
FinPost(self, index, side, r) ==
  IF index \in 1..Len(self.streams)
    THEN /\ r.self = [self EXCEPT !.streams[index].fin =
                                   r.self.streams[index].fin]
         /\ r.self.streams[index].fin[IF side = Source THEN 1 ELSE 2]
         /\ r.self.streams[index].fin[IF side = Source THEN 2 ELSE 1]
              = self.streams[index].fin[IF side = Source THEN 2 ELSE 1]
         /\ r.ret = ( /\ r.self.streams[index].fin[1]
                      /\ r.self.streams[index].fin[2] )
    ELSE r.self = self /\ r.ret = FALSE

\* in every table state, register_fin does the above for every argument
FinInv ==
  table.pc = "live" =>
    \A index \in 1..(Len(table.self.streams) + 1) :
    \A side \in {Source, Destination} :
      FinPost(table.self, index, side, register_fin(table.self, index, side))

\* a flow that stays in the table keeps the FIN flags it has
FlagsStay ==
  \A i \in 1..Len(table.self.streams) :
  \A f \in {table.self.streams[i]} :
  \A j \in 1..Len(table'.self.streams) :
    table'.self.streams[j].id = f.id
    => /\ f.fin[1] => table'.self.streams[j].fin[1]
       /\ f.fin[2] => table'.self.streams[j].fin[2]

\* C19: register_fin sets the FIN flag of the given side of the flow at
\* the index and changes nothing else, and returns whether both flags of
\* that flow are then set (false when the table has no such index); and
\* no call on the table clears a FIN flag of a flow.
C19_RegisterFinSetsOneFlag ==
  []FinInv /\ [][table.pc = "live" /\ table'.pc = "live" => FlagsStay]_vars

\* C19 witness: a flow has both FIN flags set and another the
\* Destination's only
C19_Witness ==
  /\ table.pc = "live"
  /\ Len(table.self.streams) = 2
  /\ table.self.streams[1].fin = <<TRUE, TRUE>>
  /\ table.self.streams[2].fin = <<FALSE, TRUE>>

\* the packet arm of capture_loop on a fresh table given two packets: all
\* the client's bytes with its FIN, then all the server's with its FIN
WholeDelivery(canonFirst) ==
  handle_packet(
    handle_packet(Streams_new,
                  FilteredStream(TcpFrame("A", "B", Flatten(reqMsgs), TRUE), 1),
                  canonFirst).streams,
    FilteredStream(TcpFrame("B", "A", Flatten(respMsgs), TRUE), 2),
    canonFirst)

\* the transactions on the output channel
Emitted == [i \in 1..Len(output) |-> output[i].stream]

\* C20: when a flow delivered in pieces is retired, its buffers are the
\* client's bytes and the server's bytes, and the capture has sent to the
\* output channel, or has panicked on, exactly what it sends, or panics
\* on, when each side's bytes come in one packet.
C20_SplitsFrameAlike ==
  retired # <<>> =>
    /\ retired[1].request = Flatten(reqMsgs)
    /\ retired[1].response = Flatten(respMsgs)
    /\ \E canonFirst \in BOOLEAN :
         /\ (caps[1].pc = "panicked") = WholeDelivery(canonFirst).panicked
         /\ Emitted = WholeDelivery(canonFirst).sent

\* C20 witness: a flow delivered in six packets was retired and gave two
\* transactions
C20_Witness ==
  /\ retired # <<>> /\ frames >= 6
  /\ Len(output) = 2

\* the flows of every table are in the order their first packets arrived,
\* with ids in that order; and a retired flow whose transactions were
\* delivered has on the output channel what the framer gives on its own
\* buffers
FlowsInOrder ==
  /\ \A s \in Sessions :
     \A i \in 1..Len(caps[s].streams.streams) :
     \A j \in 1..Len(caps[s].streams.streams) :
       i < j => /\ caps[s].streams.streams[i].timestamp
                     < caps[s].streams.streams[j].timestamp
                /\ caps[s].streams.streams[i].id
                     < caps[s].streams.streams[j].id
  /\ \A r \in 1..Len(retired) :
       retired[r].delivered =>
         Len(OutputOf(retired[r].cap, retired[r].id))
           = FramedBefore(retired[r].request, retired[r].response)

\* handling a packet leaves every flow the packet does not belong to in
\* the table, as it is
OthersUntouched(s) ==
  \A i \in 1..Len(caps[s].streams.streams) :
  \A f \in {caps[s].streams.streams[i]} :
    same_parties(f, Head(caps[s].packets).src, Head(caps[s].packets).dest)
      = None
    => \E j \in 1..Len(caps'[s].streams.streams) :
         caps'[s].streams.streams[j] = f

\* C21: flows of distinct endpoint pairs do not disturb each other: a
\* packet of one flow leaves the other flows in the table as they are, a
\* retired flow emits what the framer gives on its own buffers, and the
\* flow whose first packet came earlier has the smaller id.
C21_FlowsIndependent ==
  /\ []FlowsInOrder
  /\ [][\A s \in Sessions : HandlesPacket(s) => OthersUntouched(s)]_vars

\* what the packet thread has sent, or is blocked sending, and the
\* coordinator has not received yet, oldest first
Pending(c) == c.packets \o (IF IsSome(c.held) THEN <<Unwrap(c.held)>> ELSE <<>>)

ChannelBounded ==
  \A s \in Sessions :
    /\ Len(caps[s].packets) <= PacketCap
    /\ IsSome(caps[s].held) <=> caps[s].ingest = "sending"
    /\ \A i \in 1..Len(Pending(caps[s])) :
       \A j \in 1..Len(Pending(caps[s])) :
         i < j => Pending(caps[s])[i].ts < Pending(caps[s])[j].ts

\* next_packet returned a segment and the packet thread goes on: the packet
\* is the newest pending one, in the channel or held by the blocked send
PacketSent(s) ==
  /\ Len(Pending(caps'[s])) = Len(Pending(caps[s])) + 1
  /\ Take(Pending(caps'[s]), Len(Pending(caps[s]))) = Pending(caps[s])
  /\ Pending(caps'[s])[Len(Pending(caps'[s]))].ts = frames'
  /\ IsSome(caps'[s].held) <=> Len(caps[s].packets) = PacketCap
  /\ caps'[s].streams = caps[s].streams

\* the coordinator took the oldest pending packet, and handled that one
PacketReceived(s) ==
  /\ Pending(caps[s]) # <<>>
  /\ Pending(caps'[s]) = Tail(Pending(caps[s]))
  /\ \E canonFirst \in BOOLEAN :
       caps'[s].streams =
         handle_packet(caps[s].streams, Head(Pending(caps[s])),
                       canonFirst).streams

\* C22: the packet channel never holds more than 5 packets; a packet that
\* meets a full channel is held by the blocked send and not discarded; and
\* while capture_loop runs, the coordinator receives the packets sent one by
\* one, oldest first, each once.  (Every frame of the burst is a TCP
\* segment, so every return of next_packet sends a packet.)
C22_ChannelBoundedFifo ==
  /\ []ChannelBounded
  /\ [][\A s \in Sessions :
          caps[s].pc = "loop" /\ caps'[s].pc = "loop" =>
            IF frames' # frames /\ caps'[s].ingest # "exited"
              THEN PacketSent(s)
              ELSE \/ /\ Pending(caps'[s]) = Pending(caps[s])
                      /\ caps'[s].streams = caps[s].streams
                   \/ PacketReceived(s)]_vars

\* the sixth packet is held by the blocked send while the coordinator has
\* received the first and the channel has room again
C22_Witness ==
  /\ caps[1].pc = "loop" /\ caps[1].ingest = "sending"
  /\ Len(caps[1].packets) = PacketCap - 1
  /\ Head(caps[1].packets).ts = 2
  /\ Unwrap(caps[1].held).ts = PacketCap + 1

\* C23: control_loop ends only when its command channel is closed (and
\* drained); no command it receives ends it.
C23_ControlEndsOnlyOnClose ==
  [][ctl.pc = "recv" /\ ctl'.pc # "recv" => cmd = <<>> /\ ~cmdOpen]_vars

\* the control loop received the command at the head of its channel
ControlReceives == ctl.pc = "recv" /\ cmd # <<>> /\ cmd' = Tail(cmd)

\* C24: a StartCapture of an interface that is not in the device list starts
\* no capture thread and leaves the control loop receiving.
C24_UnknownInterfaceIgnored ==
  [][/\ ControlReceives
     /\ Head(cmd).t = "StartCapture" /\ Head(cmd).iface \notin Devices
     => ctl'.pc = "recv" /\ Len(caps') = Len(caps)]_vars

\* capture_loop of capture s returned before its loop: open or filter failed
OpenFailed(c) == c.pc = "returned" /\ c.ingest = "none"

\* C25: a capture whose open or filter failed has emitted nothing, and the
\* control loop that started it handles every later command (of a known
\* interface) and goes on receiving.
C25_FailedOpenLeavesControl ==
  /\ [](\A s \in Sessions :
          OpenFailed(caps[s]) => \A i \in 1..Len(output) : output[i].cap # s)
  /\ [][/\ ControlReceives
        /\ IsSome(ctl.command_sender)
        /\ OpenFailed(caps[Unwrap(ctl.command_sender)])
        /\ (Head(cmd).t = "StartCapture" => Head(cmd).iface \in Devices)
        => ctl'.pc = "recv"]_vars

\* the head packet retires its flow and the framer yields a transaction to
\* send, whichever header the map yields first
SendsTransaction(s) ==
  \A canonFirst \in BOOLEAN :
  \A h \in {handle_packet(caps[s].streams, Head(caps[s].packets),
                          canonFirst)} :
    ~h.panicked /\ h.sent # <<>>

\* C26: when the consumer has dropped its receiver, a packet whose handling
\* sends a transaction makes capture_loop leave its loop.
C26_ClosedOutputStopsCapture ==
  [][\A s \in Sessions :
       HandlesPacket(s) /\ ~outputOpen /\ SendsTransaction(s)
       => caps'[s].pc # "loop"]_vars

\* capture s has yet to leave capture_loop, and its packet channel or its
\* command channel has lost its sender
ChannelClosed(s) ==
  /\ s \in Sessions /\ Alive(caps[s])
  /\ ~caps[s].tx \/ IngestEnded(s)

CaptureOver(s) == s \in Sessions /\ ~Alive(caps[s])

\* C27: a capture whose packet thread is gone, or whose command sender is
\* dropped, eventually leaves capture_loop for good, and sends nothing to
\* the output channel from then on.
C27_ClosureEndsCapture ==
  /\ \A s \in 1..2 : ChannelClosed(s) ~> CaptureOver(s)
  /\ [][\A s \in Sessions :
          ~Alive(caps[s]) =>
            ~Alive(caps'[s]) /\ OutputOfCap(s)' = OutputOfCap(s)]_vars

\* capture_loop returned from the command arm on a closed command channel,
\* its packet thread still running
C27_Witness ==
  \E s \in Sessions :
    /\ caps[s].pc = "returned" /\ caps[s].ingest = "running"
    /\ ~caps[s].tx

\* what identifies a flow, in the table and on a transaction
Label(f) ==
  [id |-> f.id, timestamp |-> f.timestamp, source |-> f.source,
   destination |-> f.destination]

LabelsOf(streams) ==
  {Label(streams.streams[i]) : i \in 1..Len(streams.streams)}

\* the label store gives the flow it creates for the packet
CreatedLabel(streams, packet) ==
  [id |-> streams.next_id, timestamp |-> packet.ts, source |-> packet.src,
   destination |-> packet.dest]

\* the label of the flow the packet belongs to: the first flow of the table
\* with the packet's parties, or the one the packet creates
FlowLabel(streams, packet) ==
  IF Misses(streams, packet) THEN CreatedLabel(streams, packet)
  ELSE Label(streams.streams[
         Unwrap(lookup_stream(streams, packet.src, packet.dest))[1]])

SameLabelPerFlow ==
  \A i \in 1..Len(output) : \A j \in 1..Len(output) :
    output[i].cap = output[j].cap /\ output[i].stream.id = output[j].stream.id
    => Label(output[i].stream) = Label(output[j].stream)

\* the table keeps the labels it has, and gains the created one on a miss
LabelsKept(s) ==
  /\ LabelsOf(caps'[s].streams) \subseteq
       LabelsOf(caps[s].streams) \cup
         IF Misses(caps[s].streams, Head(caps[s].packets))
           THEN {CreatedLabel(caps[s].streams, Head(caps[s].packets))}
           ELSE {}
  /\ Misses(caps[s].streams, Head(caps[s].packets)) /\ caps'[s].pc = "loop"
     => CreatedLabel(caps[s].streams, Head(caps[s].packets))
          \in LabelsOf(caps'[s].streams)

\* C28: a flow's label is the counter, the timestamp and the endpoints of
\* the packet that created it; the table keeps it as it is; every
\* transaction sent when a packet retires its flow carries that label; and
\* the transactions of one flow all carry the same.
C28_TransactionsCarryLabel ==
  /\ []SameLabelPerFlow
  /\ [][\A s \in Sessions : HandlesPacket(s) =>
          /\ LabelsKept(s)
          /\ Len(output') >= Len(output)
          /\ \A i \in (Len(output) + 1)..Len(output') :
               /\ output'[i].cap = s
               /\ Label(output'[i].stream) =
                    FlowLabel(caps[s].streams, Head(caps[s].packets))]_vars

\* two transactions of the flow the first packet created
C28_Witness ==
  /\ Len(output) = 2
  /\ output[1].stream.parsed_request # output[2].stream.parsed_request
  /\ Label(output[1].stream) =
       [id |-> 0, timestamp |-> 1, source |-> "A", destination |-> "B"]
  /\ Label(output[2].stream) = Label(output[1].stream)

\* the header line with its name in the canonical spelling
CanonicalSym(x) ==
  CASE x = "cl1"    -> "CL1"
    [] x = "cl2"    -> "CL2"
    [] x = "cegzip" -> "CEgzip"
    [] OTHER        -> x

CanonicalSpelling(buf) == [i \in 1..Len(buf) |-> CanonicalSym(buf[i])]

\* what parse_response made of the buffer, the spelling of the header names
\* (in the map, and in the bytes left) aside
Decoded(r) ==
  IF r.res = "Ok"
    THEN [res |-> r.res, rest |-> CanonicalSpelling(r.rest),
          line |-> r.msg.line, body |-> r.msg.body]
    ELSE [res |-> r.res, rest |-> CanonicalSpelling(r.rest),
          line |-> "", body |-> None]

\* C29: parse_response frames and decodes the response buffer exactly as it
\* does the same bytes with Content-Length and Content-Encoding in their
\* canonical spelling.
C29_HeaderCaseIgnored ==
  \A canonFirst \in BOOLEAN :
    Decoded(parse_response(conv.self.response, canonFirst)) =
      Decoded(parse_response(CanonicalSpelling(conv.self.response),
                             canonFirst))

\* the body bytes of the first message of the buffer: as many bytes after
\* the header block as Content-Length declares, when the block is whole and
\* the bytes are there (none otherwise)
BodyBytes(buf, res, canonFirst) ==
  IF res.status = "Complete" /\ HeadersUtf8(res.headers)
    THEN LET cl == get_content_length(HeaderMap(res.headers), canonFirst) IN
         IF IsSome(cl) /\ Unwrap(cl) <= Len(buf) - res.len
           THEN Take(Drop(buf, res.len), Unwrap(cl))
           ELSE <<>>
    ELSE <<>>

\* the message names a content encoding, in whichever spelling
NamesEncoding(res) ==
  /\ res.status = "Complete"
  /\ \E n \in HeaderNames(res.headers) : to_lowercase(n) = "content-encoding"

\* the parse is Ok and the body of the message is the sentinel
BodyIsSentinel(r) == r.res = "Ok" /\ r.msg.body = Some(<<"Encoding error">>)

\* C30: a request, or a response without content encoding, whose body is
\* not valid UTF-8 is parsed all the same, and its body is the string
\* "Encoding error".
C30_Utf8Sentinel ==
  \A canonFirst \in BOOLEAN :
    /\ ~IsUtf8(BodyBytes(conv.self.request,
                         httparse(conv.self.request, ReqLines), canonFirst))
       => BodyIsSentinel(parse_request(conv.self.request, canonFirst))
    /\ /\ ~IsUtf8(BodyBytes(conv.self.response,
                            httparse(conv.self.response, RespLines),
                            canonFirst))
       /\ ~NamesEncoding(httparse(conv.self.response, RespLines))
       => BodyIsSentinel(parse_response(conv.self.response, canonFirst))

\* capture s handles a packet in this step and send_stream removes a flow
RetiresFlow(s) == HandlesPacket(s) /\ Len(retired') = Len(retired) + 1

\* the request and the response of the wire that come in one FIN packet each
FinRequest == Msg("GET /b", <<"CL1">>, <<"b">>)
FinResponse == Msg("204", <<"CL0">>, <<>>)

\* C31: the flow a packet finishes is removed with the packet's payload
\* already appended to the buffer of the packet's side, so the framer is
\* given it; a request that came in one FIN packet and a response that
\* comes in the finishing FIN packet make one transaction.
C31_PayloadBeforeFin ==
  [][\A s \in Sessions : RetiresFlow(s) =>
       \A p \in {Head(caps[s].packets)} :
       \A hit \in {lookup_stream(caps[s].streams, p.src, p.dest)} :
         /\ p.fin /\ IsSome(hit)
         /\ \A f \in {caps[s].streams.streams[Unwrap(hit)[1]]} :
              /\ retired'[Len(retired')].request =
                   Extended(f, p, Unwrap(hit)[2]).request
              /\ retired'[Len(retired')].response =
                   Extended(f, p, Unwrap(hit)[2]).response
              /\ /\ f.request = FinRequest /\ f.response = <<>>
                 /\ p.payload = FinResponse /\ outputOpen
                 => /\ Len(output') = Len(output) + 1
                    /\ output'[Len(output')].stream.parsed_request.line
                         = "GET /b"
                    /\ output'[Len(output')].stream.parsed_request.body
                         = Some(<<"b">>)
                    /\ output'[Len(output')].stream.parsed_response.line
                         = "204"]_vars

\* a flow retired with the request and the response of the two FIN packets
\* in its buffers, and its one transaction on the output channel
C31_Witness ==
  /\ Len(retired) = 1 /\ Len(output) = 1
  /\ retired[1].request = FinRequest /\ retired[1].response = FinResponse
  /\ output[1].stream.parsed_request.line = "GET /b"
  /\ frames = 2

\* the two endpoints of a flow, whichever is the source
Parties(f) == {f.source, f.destination}

\* C32: between packet handlers no two flows of a capture's table have the
\* same two endpoints.
C32_OneFlowPerPair ==
  \A s \in Sessions :
  \A i \in 1..Len(caps[s].streams.streams) :
  \A j \in 1..Len(caps[s].streams.streams) :
    i # j => Parties(caps[s].streams.streams[i])
               # Parties(caps[s].streams.streams[j])

\* two flows in the table, the first with bytes from both of its sides
C32_Witness ==
  \E s \in Sessions :
    /\ Len(caps[s].streams.streams) = 2
    /\ caps[s].streams.streams[1].request # <<>>
    /\ caps[s].streams.streams[1].response # <<>>

\* C33: between packet handlers no flow of a capture's table is finished:
\* each has a FIN flag that is false.
C33_NoFinishedFlowInTable ==
  \A s \in Sessions :
  \A i \in 1..Len(caps[s].streams.streams) :
    ~is_finished(caps[s].streams.streams[i])

\* a flow has been retired, and a flow of the table has one FIN flag set
C33_Witness ==
  \E s \in Sessions :
    /\ \E k \in 1..Len(retired) : retired[k].cap = s
    /\ \E i \in 1..Len(caps[s].streams.streams) :
         caps[s].streams.streams[i].fin \in {<<TRUE, FALSE>>, <<FALSE, TRUE>>}

\* the append the handler makes at `index` for a packet of `side`
AppendOf(streams, index, side, payload) ==
  IF side = Source THEN Streams_append_request_bytes(streams, index, payload)
  ELSE Streams_append_response_bytes(streams, index, payload)

\* register_fin at `index` took its branch for an index of the table: the
\* table keeps its length, the flow at `index` its label, and the answer is
\* whether that flow is finished
FinInRange(streams, index, rf) ==
  /\ Len(rf.self.streams) = Len(streams.streams)
  /\ Label(rf.self.streams[index]) = Label(streams.streams[index])
  /\ rf.ret = is_finished(rf.self.streams[index])

\* the calls of the handler of `packet` on the table `streams`: the index
\* store returns is one of the table and names the packet's flow at the
\* append and at register_fin
IndexHolds(streams, packet) ==
  \A st \in {store(streams, packet.src, packet.dest, packet.ts)} :
  \A index \in {st.ret[1]} :
    /\ index \in 1..Len(st.self.streams)
    /\ same_parties(st.self.streams[index], packet.src, packet.dest)
         = Some(st.ret[2])
    /\ \A ap \in {AppendOf(st.self, index, st.ret[2], packet.payload)} :
         /\ ~ap.panicked
         /\ Len(ap.self.streams) = Len(st.self.streams)
         /\ Label(ap.self.streams[index]) = Label(st.self.streams[index])
         /\ packet.fin =>
              FinInRange(ap.self, index,
                         register_fin(ap.self, index, st.ret[2]))

\* C34: for every packet capture_loop is about to handle, the index store
\* returns is in the table and is the packet's flow at the append and at
\* register_fin, and the flow send_stream removes is that one; so the
\* handler panics, if it does, in the framer only, after the removal.
C34_IndexStaysValid ==
  \A s \in Sessions :
    caps[s].pc = "loop" /\ caps[s].packets # <<>> =>
      /\ IndexHolds(caps[s].streams, Head(caps[s].packets))
      /\ \A canonFirst \in BOOLEAN :
         \A h \in {handle_packet(caps[s].streams, Head(caps[s].packets),
                                 canonFirst)} :
           /\ h.panicked => IsSome(h.removed)
           /\ IsSome(h.removed) =>
                Label(Unwrap(h.removed)) =
                  FlowLabel(caps[s].streams, Head(caps[s].packets))

\* the packet about to be handled is the second FIN of the second flow of
\* the table
C34_Witness ==
  \E s \in Sessions :
    /\ caps[s].pc = "loop" /\ caps[s].packets # <<>>
    /\ Head(caps[s].packets).fin
    /\ Len(caps[s].streams.streams) = 2
    /\ KeepsOpen(caps[s].streams.streams[1], Head(caps[s].packets), Source)
         = FALSE
    /\ \E side \in {Source, Destination} :
         /\ same_parties(caps[s].streams.streams[2],
                         Head(caps[s].packets).src,
                         Head(caps[s].packets).dest) = Some(side)
         /\ OtherFin(caps[s].streams.streams[2], side)

\* capture s has retired a flow between the endpoints of the packet
RetiredBetween(s, packet) ==
  {k \in 1..Len(retired) :
     /\ retired[k].cap = s
     /\ Parties(retired[k]) = {packet.src, packet.dest}}

\* the flow the handler of `packet` leaves when store creates it: the
\* empty flow of store, with the packet's payload and FIN from its source
Successor(streams, packet) ==
  Extended(TcpStream_new(streams.next_id, packet.ts, packet.src,
                         packet.dest),
           packet, Source)

\* a flow of the table that left it in this step was finished by the packet:
\* the packet is a FIN of that flow and finds the other side's flag set
LeavesOnlyFinished(s) ==
  \A i \in 1..Len(caps[s].streams.streams) :
  \A f \in {caps[s].streams.streams[i]} :
    (\A j \in 1..Len(caps'[s].streams.streams) :
       caps'[s].streams.streams[j].id # f.id)
    => \E side \in {Source, Destination} :
         /\ same_parties(f, Head(caps[s].packets).src,
                         Head(caps[s].packets).dest) = Some(side)
         /\ Head(caps[s].packets).fin /\ OtherFin(f, side)

\* C35: a packet between the endpoints of a retired flow that finds no flow
\* of theirs in the table leaves the retired flow's record and output as
\* they are and puts a new flow at the end of the table, whose source is
\* the packet's sender, whose buffers and flags are those of an empty flow
\* given this packet, and whose id is greater than the retired flow's; and
\* a flow leaves the table of a running capture only by a FIN that finds its
\* other side's FIN flag set.
C35_LatePacketOpensNewFlow ==
  [][\A s \in Sessions : HandlesPacket(s) =>
       \A p \in {Head(caps[s].packets)} :
         /\ RetiredBetween(s, p) # {} /\ Misses(caps[s].streams, p)
            => /\ caps'[s].pc = "loop"
               /\ retired' = retired /\ output' = output /\ framed' = framed
               /\ caps'[s].streams.streams =
                    Append(caps[s].streams.streams,
                           Successor(caps[s].streams, p))
               /\ \A k \in RetiredBetween(s, p) :
                    retired[k].id < caps[s].streams.next_id
         /\ caps'[s].pc = "loop" => LeavesOnlyFinished(s)]_vars

\* a flow between A and B has been retired and a later packet from B has
\* opened a new one, with B as its source
C35_Witness ==
  \E s \in Sessions : \E k \in 1..Len(retired) :
    /\ retired[k].cap = s /\ retired[k].source = "A"
    /\ retired[k].destination = "B"
    /\ \E i \in 1..Len(caps[s].streams.streams) :
         /\ caps[s].streams.streams[i].source = "B"
         /\ caps[s].streams.streams[i].destination = "A"
         /\ caps[s].streams.streams[i].id > retired[k].id

\* one more turn of the loop, from `c` to `n`, makes progress: either it
\* pushed one transaction and both buffers are shorter, or it pushed none
\* and the function has ended (returned, or panicked in a parse)
Progress(c, n) ==
  IF Len(n.streams) > Len(c.streams)
    THEN /\ Len(n.streams) = Len(c.streams) + 1
         /\ Len(n.self.request) < Len(c.self.request)
         /\ Len(n.self.response) < Len(c.self.response)
         /\ n.pc = "loop"
    ELSE /\ n.streams = c.streams
         /\ n.pc \in {"returned", "panicked"}

\* C36: every turn of the loop of convert_to_http_stream either emits a
\* transaction and shortens both buffers or ends the loop, and the
\* transactions emitted so far and what is left of a buffer never exceed
\* what the buffer held at the call: the turns are bounded by the lengths.
C36_FramerTerminates ==
  /\ conv.pc = "loop" =>
       \A canonFirst \in BOOLEAN :
         Progress(conv, convert_iteration(conv, canonFirst))
  /\ conv.pc # "idle" =>
       /\ Len(conv.streams) + Len(conv.self.request)
            <= Len(Flatten(reqMsgs))
       /\ Len(conv.streams) + Len(conv.self.response)
            <= Len(Flatten(respMsgs))

\* the loop has emitted two transactions and ended on its third turn
C36_Witness ==
  /\ conv.pc = "returned" /\ Len(conv.streams) = 2
  /\ Len(conv.self.request) < Len(Flatten(reqMsgs)) - 2

\* C37: two capture loops are never alive at the same time: of the capture
\* threads the control loop has spawned, at most one is in the select loop
\* of capture_loop.
C37_OneCaptureAlive ==
  \A s, t \in 1..Len(caps) :
    caps[s].pc = "loop" /\ caps[t].pc = "loop" => s = t

\* no capture thread is running: none was started, or each has returned
NoCaptureRunning == \A s \in 1..Len(caps) : ~Alive(caps[s])

\* C38: a StopCapture the control loop receives while no capture is running
\* changes nothing: the control loop stays in its receive and no capture
\* is touched.
C38_StopWithoutCaptureIsNoop ==
  [][/\ ControlReceives /\ Head(cmd).t = "StopCapture"
     /\ NoCaptureRunning
     => ctl' = ctl /\ caps' = caps]_vars

\* the commands sent alternate, beginning with StartCapture
Alternates(sent) ==
  /\ sent # <<>> => sent[1].t = "StartCapture"
  /\ \A i \in 1..(Len(sent) - 1) : sent[i].t # sent[i + 1].t

\* C39: the UI sends StartCapture only while capture_state is Inactive, and
\* is Active afterwards; it sends StopCapture only while capture_state is
\* Active; the commands it has sent alternate, beginning with StartCapture.
C39_CommandsAlternate ==
  /\ [](ui.pc # "idle" => Alternates(ui.sent))
  /\ [][Len(ui'.sent) > Len(ui.sent) =>
          IF ui'.sent[Len(ui'.sent)].t = "StartCapture"
            THEN ui.capture_state = "Inactive" /\ ui'.capture_state = "Active"
            ELSE ui.capture_state = "Active"]_vars

\* the UI has started a capture, stopped it and started another
C39_Witness ==
  /\ Len(ui.sent) = 3 /\ ui.sent[3].t = "StartCapture"
  /\ ui.capture_state = "Active"

\* a selection is unset or the index of a row
InRange(sel, len) == IsSome(sel) => Unwrap(sel) < len

\* C40: the selected row of the stream list and the selected row of the
\* device list are unset or an index below the length of their list.
C40_SelectionInRange ==
  ui.pc # "idle" =>
    /\ InRange(ui.selected_stream, ui.stream_items)
    /\ InRange(ui.selected_device, ui.devices)

=============================================================================
